---- MODULE Spec2Model ----
(***************************************************************************)
(* A model of the edfsm runtime: the Fsm step algorithm, the fixtures that *)
(* implement the Fsm contract, and the Machine task that hydrates a state  *)
(* from an event log, initialises the effector and then runs the main loop *)
(* over a bounded input channel.                                           *)
(* The KvStore, a map from Path to the state of a child machine, is an Fsm *)
(* run by the same task; Path and its order are modelled with it.          *)
(***************************************************************************)
EXTENDS Integers, Sequences, FiniteSets, TLC

(***************************************************************************)
(* Bounds of the model.                                                    *)
(***************************************************************************)
\* number of messages each producer may send
MaxSend == 2
\* capacity of the machine's input channel (the `buffer` argument)
InputCap == 2
\* capacity of the output channel connected with with_output
OutCap == 1
\* most messages all producers together may send
MaxInputs == 2
\* most calls of step made by the step harness
MaxCalls == 4
\* most items of a Path
MaxPathLen == 2
\* most entries of a store that is queried
MaxKeys == 3

\* calls the Requester makes at most
MaxQueries == 3

\* adapters connected to a machine at most
MaxSinks == 3

\* Counter::on_change pushes a Tock when the count is a multiple of this
TockEvery == 10

Producers == {1, 2}

None == "None"

VARIABLES
    fsm,          \* the Fsm implementation that is run
    buffer,       \* the `buffer` the input channel was created with
    template,     \* Template.log, .output and .events: the adapters connected
    req,          \* the Requester's call in progress and the outcomes so far
    req2,         \* the same of a second Requester, on a clone of the Sender
    state,        \* the Fsm state, State<M>
    effects,      \* the effector, Effects<M>
    last,         \* what the last call of step did (calls made, pre-state, result)
    cur,          \* the input received last
    sender,       \* Template.sender: the machine's own input Sender
    inq,          \* the input channel's buffer (Template.receiver)
    prod,         \* the producers holding clones of the input Sender
    log,          \* Template.log: a Vec<Event> used as Adapter and Feed
    events,       \* Template.events: a Vec<Event> added by merge_event_log
    outq,         \* buffer of the mpsc channel behind Template.output
    outRx,        \* the Receiver of that channel: "open", "dropped" or "ended"
    delivered,    \* the outputs the consumer has received
    pc,           \* the position of the task
    fed,          \* number of historical events the feed has passed on
    pending,      \* outputs drained from the effector, not yet notified
    terminating,  \* the local variable `terminating` of the main loop
    result,       \* the value the task returned
    history,      \* the content of the log when the task started
    effects0,     \* the content of the effector when the task started
    trace,        \* what the task has done, in order
    db,           \* the SQLite database of the BackingStore: its tables
    backing,      \* the BackingStore that BackingStore::new returned
    clog,         \* the topic of the CommitLog behind a LogAdapter
    hist,         \* the stream that LogAdapter::history returned
    ret           \* what the last call on a store or a log returned

vars == <<fsm, buffer, template, req, req2, state, effects, last, cur, sender, inq, prod, log, events, outq,
          outRx, delivered, pc, fed, pending, terminating, result, history,
          effects0, trace, db, backing, clog, hist, ret>>

\* the variables of the persistence backends, which a machine that has none
\* connected leaves alone
storage == <<db, backing, clog, hist, ret>>

(***************************************************************************)
(* Adapters.  A Placeholder, a sink that takes the item (a Vec or the       *)
(* Sender of a channel, number k), Merge and FilterMap.                    *)
(***************************************************************************)
Placeholder == [a |-> "Placeholder"]

Sink(k) == [a |-> "Sink", id |-> k]

Merge(first, next) == [a |-> "Merge", first |-> first, next |-> next]

FilterMap(func, inner) == [a |-> "FilterMap", func |-> func, inner |-> inner]

\* the function of a FilterMap: one that maps a Tick to Ticked and rejects
\* every other event, and one that accepts every item as it is
Apply(func, a) ==
    IF func = "ticks" THEN (IF a = "Tick" THEN "Ticked" ELSE None) ELSE a

RECURSIVE Deliveries(_, _)

\* a Merge that notifies next before first
Deliveries_NextFirst(ad, a) ==
    CASE ad.a = "Placeholder" -> <<>>
      [] ad.a = "Sink" -> <<[sink |-> ad.id, item |-> a]>>
      [] ad.a = "Merge" -> Deliveries(ad.next, a) \o Deliveries(ad.first, a)
      [] OTHER -> IF Apply(ad.func, a) = None
                  THEN <<>>
                  ELSE Deliveries(ad.inner, Apply(ad.func, a))

\* a FilterMap that passes the item it rejected on as it came
Deliveries_PassesRejected(ad, a) ==
    CASE ad.a = "Placeholder" -> <<>>
      [] ad.a = "Sink" -> <<[sink |-> ad.id, item |-> a]>>
      [] ad.a = "Merge" -> Deliveries(ad.first, a) \o Deliveries(ad.next, a)
      [] OTHER -> IF Apply(ad.func, a) = None
                  THEN Deliveries(ad.inner, a)
                  ELSE Deliveries(ad.inner, Apply(ad.func, a))

\* Adapter::notify: the sinks that take an item notified to the adapter and
\* what each takes, in the order they are notified.  A Placeholder discards
\* the item; a Merge notifies first with a clone, awaits it, then notifies
\* next; a FilterMap notifies inner with Some result of its function
Deliveries(ad, a) ==
    CASE ad.a = "Placeholder" -> <<>>
      [] ad.a = "Sink" -> <<[sink |-> ad.id, item |-> a]>>
      [] ad.a = "Merge" -> Deliveries(ad.first, a) \o Deliveries(ad.next, a)
      [] OTHER -> IF Apply(ad.func, a) = None
                  THEN <<>>
                  ELSE Deliveries(ad.inner, Apply(ad.func, a))

\* a Placeholder whose merge keeps the Placeholder
merge_KeepsPlaceholder(ad, other) ==
    IF ad.a = "Placeholder" THEN ad ELSE Merge(ad, other)

\* Adapter::merge: Merge { first: self, next: other }; Placeholder
\* overrides it and returns other
merge(ad, other) ==
    IF ad.a = "Placeholder" THEN other ELSE Merge(ad, other)

\* the Template the tests build: with_event_log(Vec), with_output(Sender)
\* and one Vec for the events
TestTemplate == [log |-> Sink(1), output |-> Sink(1), events |-> Sink(1)]

\* no call of the Requester is in progress and none was made
NoReply == [is |-> "NoReply"]

NoRequest == [st |-> "idle", at |-> 0, q |-> None, reply |-> NoReply, got |-> <<>>]

(***************************************************************************)
(* The fixtures: MyFsm of event-driven's test_step and the Counter.         *)
(***************************************************************************)
Tock == "Tock"

\* KvStore::default(), the empty map
EmptyStore == [k \in {} |-> [count |-> 0]]

\* Default::default() of the state of each fixture; test_step starts in Idle
DefaultState(m) ==
    IF m = "MyFsm" THEN "Idle"
    ELSE IF m = "KvStore" THEN EmptyStore
    ELSE [count |-> 0]

\* the events of a Counter that are terminating: the event Stop that the
\* producer of the terminating test sends between its Ticks
TerminatingEvents == {"Stop"}

\* Terminating::terminating of the Counter's Event
Counter_terminating(e) == e \in TerminatingEvents

\* MyFsm::for_command: the event and the effector after the call
MyFsm_for_command(s, c, se) ==
    CASE s = "Running" /\ c = "Stop" -> [e |-> "Stopped", se |-> se]
      [] s = "Idle" /\ c = "Start" -> [e |-> "Started", se |-> se]
      [] OTHER -> [e |-> None, se |-> se]

\* Counter::for_command: Print prints the count; no command gives an event
Counter_for_command(s, c, se) == [e |-> None, se |-> se]

\* MyFsm::on_event: the state after the call and the change reported
MyFsm_on_event(s, e) ==
    CASE s = "Running" /\ e = "Stopped" -> [s |-> "Idle", r |-> "Transitioned"]
      [] s = "Idle" /\ e = "Started" -> [s |-> "Running", r |-> "Transitioned"]
      [] OTHER -> [s |-> s, r |-> "Unchanged"]

\* the Counter's reaction to the terminating event Stop: the count stays
Counter_on_stop(s) == [s |-> s, r |-> "Transitioned"]

\* an on_event whose Tick counts by two
Counter_on_event_TickTwice(s, e) ==
    CASE e = "Tick" -> [s |-> [count |-> s.count + 2], r |-> "Updated"]
      [] e = "Reset" -> IF s.count = 0
                        THEN [s |-> s, r |-> "Unchanged"]
                        ELSE [s |-> [count |-> 0], r |-> "Updated"]
      [] OTHER -> Counter_on_stop(s)

\* Counter::on_event: a None result is the change "Unchanged"
Counter_on_event(s, e) ==
    CASE e = "Tick" -> [s |-> [count |-> s.count + 1], r |-> "Updated"]
      [] e = "Reset" -> IF s.count = 0
                        THEN [s |-> s, r |-> "Unchanged"]
                        ELSE [s |-> [count |-> 0], r |-> "Updated"]
      [] OTHER -> Counter_on_stop(s)

\* an on_entry that runs the entry handler of Running for every state
MyFsm_on_entry_Always(s, se) ==
    [se EXCEPT !.transitioned_stopped_to_started = @ + 1]

\* MyFsm::on_entry: the effector after the call
MyFsm_on_entry(s, se) ==
    IF s = "Running"
    THEN [se EXCEPT !.transitioned_stopped_to_started = @ + 1]
    ELSE se

\* MyFsm::on_change: the effector after the call
MyFsm_on_change(s, e, se) ==
    CASE s = "Idle" /\ e = "Stopped" -> [se EXCEPT !.stopped = @ + 1]
      [] s = "Running" /\ e = "Started" -> [se EXCEPT !.started = @ + 1]
      [] OTHER -> se

\* a Counter that counts the multiples of ten one Tick early
Counter_on_change_OneEarly(s, e, se) ==
    IF (s.count + 1) % TockEvery = 0 THEN Append(se, Tock) ELSE se

\* Counter::on_change: a Tock whenever the count is a multiple of ten
Counter_on_change(s, e, se) ==
    IF s.count % TockEvery = 0 THEN Append(se, Tock) ELSE se

(***************************************************************************)
(* Path, the key of the KvStore: a Vec of PathItems, each a Number(u64) or *)
(* a Name(SmolStr).  A name is the sequence of its bytes.                  *)
(***************************************************************************)
Number(n) == [t |-> "Number", v |-> n]

Name(s) == [t |-> "Name", v |-> s]

\* the path items of the model: 1, 65, "a" and "ab"
PathItems == {Number(1), Number(65), Name(<<97>>), Name(<<97, 98>>)}

\* Path::root(), the empty path
root == <<>>

\* all paths of n items
PathsOfLen(n) == [1..n -> PathItems]

\* all paths of at most MaxPathLen items
Paths == UNION {PathsOfLen(n) : n \in 0..MaxPathLen}

\* Ord of u64 and of usize
NumCmp(a, b) == IF a < b THEN "Less" ELSE IF a > b THEN "Greater" ELSE "Equal"

\* Ord of str: the bytes are compared in turn, then the lengths
RECURSIVE StrCmp(_, _)
StrCmp(a, b) ==
    IF a = <<>> \/ b = <<>>
    THEN NumCmp(Len(a), Len(b))
    ELSE IF Head(a) # Head(b)
         THEN NumCmp(Head(a), Head(b))
         ELSE StrCmp(Tail(a), Tail(b))

\* the derived Ord of PathItem: Number sorts before Name, then the values
PathItemCmp(x, y) ==
    IF x.t # y.t
    THEN (IF x.t = "Number" THEN "Less" ELSE "Greater")
    ELSE IF x.t = "Number" THEN NumCmp(x.v, y.v) ELSE StrCmp(x.v, y.v)

\* a Path order that compares the lengths before the items
PathCmp_ShortFirst(p, q) ==
    IF Len(p) # Len(q)
    THEN NumCmp(Len(p), Len(q))
    ELSE LET d == {i \in 1..Len(p) : p[i] # q[i]}
         IN  IF d = {} THEN "Equal"
             ELSE LET i == CHOOSE i \in d : \A j \in d : i <= j
                  IN  PathItemCmp(p[i], q[i])

\* the derived Ord of Path, that of Vec<PathItem>: the items are compared in
\* turn, then the lengths
RECURSIVE PathCmp(_, _)
PathCmp(p, q) ==
    IF p = <<>> \/ q = <<>>
    THEN NumCmp(Len(p), Len(q))
    ELSE IF PathItemCmp(Head(p), Head(q)) # "Equal"
         THEN PathItemCmp(Head(p), Head(q))
         ELSE PathCmp(Tail(p), Tail(q))

\* the keys of a BTreeMap in the order its iterators yield them
RECURSIVE Ordered(_)
Ordered(keys) ==
    IF keys = {} THEN <<>>
    ELSE LET m == CHOOSE m \in keys : \A k \in keys : PathCmp(m, k) # "Greater"
         IN  <<m>> \o Ordered(keys \ {m})

\* Iterator::take_while with the closure of GetTree
RECURSIVE TakeWhileTree(_, _)
TakeWhileTree(ks, path) ==
    IF ks = <<>> THEN <<>>
    ELSE IF Len(Head(ks)) > Len(path) \/ Head(ks) = path
         THEN <<Head(ks)>> \o TakeWhileTree(Tail(ks), path)
         ELSE <<>>

\* BTreeMap::range((Included(path), Unbounded)): the keys from path on
RangeFrom(store, path) ==
    SelectSeq(Ordered(DOMAIN store), LAMBDA k : PathCmp(k, path) # "Less")

\* BTreeMap::range(bounds); a bound is Included(p), Excluded(p) or Unbounded
InBounds(k, lo, hi) ==
    /\ CASE lo.b = "Included" -> PathCmp(k, lo.p) # "Less"
         [] lo.b = "Excluded" -> PathCmp(k, lo.p) = "Greater"
         [] OTHER -> TRUE
    /\ CASE hi.b = "Included" -> PathCmp(k, hi.p) # "Greater"
         [] hi.b = "Excluded" -> PathCmp(k, hi.p) = "Less"
         [] OTHER -> TRUE

Range(store, lo, hi) ==
    SelectSeq(Ordered(DOMAIN store), LAMBDA k : InBounds(k, lo, hi))

\* the entries an iterator over the keys ks yields to a respond function
Entries(store, ks) == [i \in 1..Len(ks) |-> [key |-> ks[i], value |-> store[ks[i]]]]

(***************************************************************************)
(* KvStore<Counter>: a BTreeMap from Path to the state of a Counter, here  *)
(* a function whose domain is the set of keys.                             *)
(***************************************************************************)
\* Keyed { key, item } for an event.  An event of the runtime is a string,
\* so a keyed event is written as one; KeyOf and ItemOf read its fields.
Keyed(k, a) == ToString([key |-> [i \in 1..Len(k) |-> k[i]], item |-> a])

\* the events of the child machine
ChildEvents == {"Tick", "Reset", "Stop"}

\* every keyed event of the model, as written
KeyedEvents == [r \in [key : Paths, item : ChildEvents] |-> Keyed(r.key, r.item)]

KeyedFields(e) == CHOOSE r \in DOMAIN KeyedEvents : KeyedEvents[r] = e

KeyOf(e) == KeyedFields(e).key

ItemOf(e) == KeyedFields(e).item

\* a Keyed event that is terminating when the event of the child is
Keyed_terminating_Inner(e) == Counter_terminating(ItemOf(e))

\* Terminating::terminating of Keyed<A>, the event of a KvStore
Keyed_terminating(e) == FALSE

\* Terminating::terminating of the event of the Fsm that is run
Terminating(e) ==
    IF fsm = "KvStore" THEN Keyed_terminating(e) ELSE Counter_terminating(e)

\* BTreeMap::get
Get(store, path) == IF path \in DOMAIN store THEN "Some" ELSE "None"

\* the map with the entry of key k set to v, and with it removed
Put(store, k, v) == [x \in DOMAIN store \cup {k} |-> IF x = k THEN v ELSE store[x]]

Remove(store, k) == [x \in DOMAIN store \ {k} |-> store[x]]

\* Default::default() of Keyed<Vec<Output>>, the effector of the KvStore
KeyedDefault == [key |-> root, item |-> <<>>]

\* a respond function of Insert that looks at the entries it is given and
\* returns a Tick for the least Path that is not among them
FirstAbsent == "FirstAbsent"

\* the event the respond function f of an Insert returns for the entries of
\* the map; a function that does not look at them is given by its event
RespondMany(f, store) ==
    IF f = FirstAbsent
    THEN LET free == Paths \ DOMAIN store
         IN  IF free = {}
             THEN Keyed(root, "Tick")
             ELSE Keyed(CHOOSE m \in free :
                            \A k \in free : PathCmp(m, k) # "Greater", "Tick")
    ELSE f

\* a for_command whose Get also emits an event for the path it read
KvStore_for_command_GetEmits(store, c, se) ==
    IF c.q = "Get"
    THEN [e |-> Keyed(c.path, "Tick"), se |-> se, seen |-> Get(store, c.path)]
    ELSE IF c.q = "Upsert"
    THEN [e |-> Keyed(c.path, c.respond[Get(store, c.path)]), se |-> se,
          seen |-> Get(store, c.path)]
    ELSE IF c.q = "Insert"
    THEN [e |-> RespondMany(c.respond, store), se |-> se, seen |-> <<>>]
    ELSE [e |-> None, se |-> se, seen |-> <<>>]

\* a for_command whose Upsert never shows respond the value at the path
KvStore_for_command_UpsertBlind(store, c, se) ==
    IF c.q = "Upsert"
    THEN [e |-> Keyed(c.path, c.respond["None"]), se |-> se, seen |-> "None"]
    ELSE IF c.q = "Get"
    THEN [e |-> None, se |-> se, seen |-> Get(store, c.path)]
    ELSE IF c.q = "Insert"
    THEN [e |-> RespondMany(c.respond, store), se |-> se, seen |-> Entries(store, Ordered(DOMAIN store))]
    ELSE [e |-> None, se |-> se, seen |-> <<>>]

\* a for_command whose Insert gives the event the key of the root
KvStore_for_command_InsertAtRoot(store, c, se) ==
    IF c.q = "Insert"
    THEN [e |-> Keyed(root, ItemOf(RespondMany(c.respond, store))), se |-> se,
          seen |-> Entries(store, Ordered(DOMAIN store))]
    ELSE IF c.q = "Upsert"
    THEN [e |-> Keyed(c.path, c.respond[Get(store, c.path)]), se |-> se,
          seen |-> Get(store, c.path)]
    ELSE IF c.q = "Get"
    THEN [e |-> None, se |-> se, seen |-> Get(store, c.path)]
    ELSE [e |-> None, se |-> se, seen |-> <<>>]

\* KvStore::for_command: the event, the effector and what respond was given
KvStore_for_command(store, c, se) ==
    CASE c.q = "Get" ->
            [e |-> None, se |-> se, seen |-> Get(store, c.path)]
      [] c.q = "GetTree" ->
            [e |-> None, se |-> se,
             seen |-> Entries(store, TakeWhileTree(RangeFrom(store, c.path), c.path))]
      [] c.q = "GetRange" ->
            [e |-> None, se |-> se, seen |-> Entries(store, Range(store, c.lo, c.hi))]
      [] c.q = "GetAll" ->
            [e |-> None, se |-> se, seen |-> Entries(store, Ordered(DOMAIN store))]
      [] c.q = "Upsert" ->
            [e |-> Keyed(c.path, c.respond[Get(store, c.path)]), se |-> se,
             seen |-> Get(store, c.path)]
      [] OTHER ->
            [e |-> RespondMany(c.respond, store), se |-> se, seen |-> Entries(store, Ordered(DOMAIN store))]

\* a store that applies every event, terminating or not, to the child
KvStore_on_event_NoEviction(r, e) ==
    LET k == KeyOf(e)
        s == IF k \in DOMAIN r THEN r[k] ELSE DefaultState("Counter")
        c == Counter_on_event(s, ItemOf(e))
    IN  [s |-> Put(r, k, c.s), r |-> c.r,
         child |-> <<[s |-> s, e |-> ItemOf(e)]>>, inserted |-> k \notin DOMAIN r]

\* a store that ignores a non-terminating event for an absent key
KvStore_on_event_DropsAbsent(r, e) ==
    IF KeyOf(e) \in DOMAIN r
    THEN KvStore_on_event_NoEviction(r, e)
    ELSE [s |-> r, r |-> "Unchanged", child |-> <<>>, inserted |-> FALSE]

\* a store that takes the entry first, inserting a default child for an
\* absent key, and removes it again on a terminating event
KvStore_on_event_InsertsFirst(r, e) ==
    IF Counter_terminating(ItemOf(e))
    THEN [s |-> Remove(r, KeyOf(e)), r |-> "Transitioned", child |-> <<>>,
          inserted |-> KeyOf(e) \notin DOMAIN r]
    ELSE KvStore_on_event_NoEviction(r, e)

\* KvStore::on_event: the map after the call, the change reported, the calls
\* made to the child's on_event and whether a default child was inserted
KvStore_on_event(r, e) ==
    LET k == KeyOf(e)
        a == ItemOf(e)
    IN  CASE k \in DOMAIN r /\ ~Counter_terminating(a) ->
                LET c == Counter_on_event(r[k], a)
                IN  [s |-> Put(r, k, c.s), r |-> c.r,
                     child |-> <<[s |-> r[k], e |-> a]>>, inserted |-> FALSE]
          [] k \notin DOMAIN r /\ ~Counter_terminating(a) ->
                LET s0 == DefaultState("Counter")
                    c == Counter_on_event(s0, a)
                IN  [s |-> Put(Put(r, k, s0), k, c.s), r |-> c.r,
                     child |-> <<[s |-> s0, e |-> a]>>, inserted |-> TRUE]
          [] k \in DOMAIN r /\ Counter_terminating(a) ->
                [s |-> Remove(r, k), r |-> "Transitioned", child |-> <<>>,
                 inserted |-> FALSE]
          [] OTHER ->
                [s |-> r, r |-> "Unchanged", child |-> <<>>, inserted |-> FALSE]

\* an on_change that leaves the key of the effector as it was
KvStore_on_change_KeepsKey(r, e, se) ==
    IF KeyOf(e) \in DOMAIN r
    THEN [key |-> se.key, item |-> Counter_on_change(r[KeyOf(e)], ItemOf(e), se.item)]
    ELSE se

\* KvStore::on_change: the child's on_change, if the key is in the map
KvStore_on_change(r, e, se) ==
    IF KeyOf(e) \in DOMAIN r
    THEN [key |-> KeyOf(e), item |-> Counter_on_change(r[KeyOf(e)], ItemOf(e), se.item)]
    ELSE se

(***************************************************************************)
(* The functions of the trait Fsm, for the implementation m.               *)
(***************************************************************************)
for_command(m, s, c, se) ==
    IF m = "MyFsm" THEN MyFsm_for_command(s, c, se)
    ELSE IF m = "KvStore" THEN KvStore_for_command(s, c, se)
    ELSE Counter_for_command(s, c, se)

on_event(m, s, e) ==
    IF m = "MyFsm" THEN MyFsm_on_event(s, e)
    ELSE IF m = "KvStore" THEN KvStore_on_event(s, e)
    ELSE Counter_on_event(s, e)

\* the Counter keeps the default on_entry, which does nothing
on_entry(m, s, se) ==
    IF m = "MyFsm" THEN MyFsm_on_entry(s, se) ELSE se

on_change(m, s, e, se) ==
    IF m = "MyFsm" THEN MyFsm_on_change(s, e, se)
    ELSE IF m = "KvStore" THEN KvStore_on_change(s, e, se)
    ELSE Counter_on_change(s, e, se)

(***************************************************************************)
(* Fsm::step.  The result carries the state and effector after the call,   *)
(* the event returned (None when there is none), the change on_event        *)
(* reported and the calls made, each with the state it was given.          *)
(***************************************************************************)
Call(f, s) == [fn |-> f, s |-> s]

\* step returning the event of a transition only, not of an update
StepEvent_OnlyTransitions(m, s, e, se, calls) ==
    LET r == on_event(m, s, e)
        c1 == Append(calls, Call("on_event", s))
    IN  IF r.r = "Transitioned"
        THEN [s |-> r.s, se |-> on_change(m, r.s, e, se), e |-> e, r |-> r.r,
              calls |-> Append(c1, Call("on_change", r.s))]
        ELSE [s |-> r.s, se |-> se, e |-> None, r |-> r.r, calls |-> c1]

\* step returning the event whatever on_event reported
StepEvent_AlwaysReturns(m, s, e, se, calls) ==
    LET r == on_event(m, s, e)
    IN  [s |-> r.s, se |-> se, e |-> e, r |-> r.r,
         calls |-> Append(calls, Call("on_event", s))]

StepEvent(m, s, e, se, calls) ==
    LET r == on_event(m, s, e)
        c1 == Append(calls, Call("on_event", s))
        se1 == IF r.r = "Transitioned" THEN on_entry(m, r.s, se) ELSE se
        c2 == IF r.r = "Transitioned" THEN Append(c1, Call("on_entry", r.s)) ELSE c1
    IN  IF r.r \in {"Transitioned", "Updated"}
        THEN [s |-> r.s, se |-> on_change(m, r.s, e, se1), e |-> e, r |-> r.r,
              calls |-> Append(c2, Call("on_change", r.s))]
        ELSE [s |-> r.s, se |-> se1, e |-> None, r |-> r.r, calls |-> c2]

step(m, s, st, se) ==
    IF st.kind = "Command"
    THEN LET f == for_command(m, s, st.val, se)
             c0 == <<Call("for_command", s)>>
         IN  IF f.e # None
             THEN StepEvent(m, s, f.e, f.se, c0)
             ELSE [s |-> s, se |-> f.se, e |-> None, r |-> "NoEvent", calls |-> c0]
    ELSE StepEvent(m, s, st.val, se, <<>>)

(***************************************************************************)
(* Values shared by the specifications.                                    *)
(***************************************************************************)
\* src is the producer that sent an input, seq its number among the inputs of
\* that producer and at its number among all inputs the channel accepted
NoInput == [kind |-> "None", val |-> None, src |-> 0, seq |-> 0, at |-> 0]

NoStep == [pre |-> None, e |-> None, r |-> "NoEvent", calls |-> <<>>]

\* the keys the inputs of a KvStore machine address
KvPaths == {root, <<Number(1)>>, <<Number(1), Name(<<97>>)>>}

\* the keyed events sent to a KvStore machine
KvEvents == {Keyed(k, a) : k \in KvPaths, a \in ChildEvents}

\* the queries sent to a KvStore machine.  A respond function of Upsert is
\* given by the event it returns for Some(value) and for None, that of
\* Insert by the keyed event it returns.
KvQueries ==
    {[q |-> "Get", path |-> root],
     [q |-> "GetTree", path |-> <<Number(1)>>],
     [q |-> "GetRange", lo |-> [b |-> "Included", p |-> root],
                        hi |-> [b |-> "Excluded", p |-> <<Number(1)>>]],
     [q |-> "GetAll"],
     [q |-> "Upsert", path |-> root, respond |-> [Some |-> "Reset", None |-> "Tick"]],
     [q |-> "Upsert", path |-> <<Number(1)>>,
                      respond |-> [Some |-> "Stop", None |-> "Reset"]],
     [q |-> "Insert", respond |-> Keyed(<<Number(1), Name(<<97>>)>>, "Tick")]}

KvInputs ==
    {[kind |-> "Event", val |-> e] : e \in KvEvents}
        \cup {[kind |-> "Command", val |-> c] : c \in KvQueries}

\* the inputs a caller may give each fixture
Inputs(m) ==
    IF m = "MyFsm"
    THEN {[kind |-> "Command", val |-> "Start"], [kind |-> "Command", val |-> "Stop"],
          [kind |-> "Event", val |-> "Started"], [kind |-> "Event", val |-> "Stopped"]}
    ELSE IF m = "KvStore" THEN KvInputs
    ELSE {[kind |-> "Command", val |-> "Print"], [kind |-> "Event", val |-> "Tick"],
          [kind |-> "Event", val |-> "Reset"], [kind |-> "Event", val |-> "Stop"]}

\* the effector each fixture starts with: EffectHandlers and OutputBuffer
DefaultEffects(m) ==
    IF m = "MyFsm"
    THEN [started |-> 0, stopped |-> 0, transitioned_stopped_to_started |-> 0]
    ELSE IF m = "KvStore" THEN KeyedDefault
    ELSE <<>>

\* the states step is tried on
States(m) ==
    IF m = "MyFsm"
    THEN {"Idle", "Running"}
    ELSE {[count |-> n] : n \in (0..1) \cup {TockEvery - 1}}

\* number of entries of the trace made by operation op
Count(op) == Cardinality({i \in DOMAIN trace : trace[i][1] = op})

\* number of inputs stepped so far
StepNo == Count("step")

\* no database, no store, no commit log
NoDb == [tables |-> {}, log |-> <<>>, compacted |-> <<>>, compact |-> <<>>,
         produced |-> <<>>]

NoStore == [is |-> "None"]

NoHist == [st |-> "none", last_offset |-> [is |-> "None"], pos |-> 0, yielded |-> <<>>]

NoRet == [op |-> "none", is |-> "Ok"]

NoStorage ==
    /\ db = NoDb
    /\ backing = NoStore
    /\ clog = <<>>
    /\ hist = NoHist
    /\ ret = NoRet

(***************************************************************************)
(* SpecStep: step called directly, as test_step does, on every state and   *)
(* input of a fixture.                                                     *)
(***************************************************************************)
InitStep ==
    /\ fsm \in {"MyFsm", "Counter"}
    /\ template = TestTemplate
    /\ req = NoRequest
    /\ req2 = NoRequest
    /\ NoStorage
    /\ buffer = InputCap
    /\ state \in States(fsm)
    /\ effects = DefaultEffects(fsm)
    /\ last = NoStep
    /\ cur = NoInput
    /\ sender = "Some"
    /\ inq = <<>>
    /\ prod = [p \in Producers |-> [sent |-> 0, alive |-> FALSE]]
    /\ log = <<>>
    /\ events = <<>>
    /\ outq = <<>>
    /\ outRx = "open"
    /\ delivered = <<>>
    /\ pc = "harness"
    /\ fed = 0
    /\ pending = <<>>
    /\ terminating = FALSE
    /\ result = None
    /\ history = <<>>
    /\ effects0 = <<>>
    /\ trace = <<>>

CallStep ==
    /\ pc = "harness"
    /\ StepNo < MaxCalls
    /\ \E i \in Inputs(fsm) :
        LET st == [kind |-> i.kind, val |-> i.val, src |-> 0, seq |-> StepNo + 1,
                   at |-> StepNo + 1]
            r == step(fsm, state, st, effects)
        IN  /\ cur' = st
            /\ state' = r.s
            /\ effects' = r.se
            /\ last' = [pre |-> state, e |-> r.e, r |-> r.r, calls |-> r.calls]
            /\ trace' = Append(trace, <<"step", StepNo + 1, 0, st.seq, r.e>>)
    /\ UNCHANGED <<storage, fsm, buffer, template, req, req2, sender, inq, prod, log, events, outq, outRx, delivered, pc,
                   fed, pending, terminating, result, history, effects0>>

NextStep == CallStep

SpecStep == InitStep /\ [][NextStep]_vars

(***************************************************************************)
(* Claims about step.                                                      *)
(***************************************************************************)
\* the calls of the last step made to the Fsm function f
CallsOf(f) == SelectSeq(last.calls, LAMBDA c : c.fn = f)

\* the event the last input resulted in, before on_event: the input's own
\* event, or the one for_command gave for the input's command
ResultingEvent ==
    IF cur.kind = "Command"
    THEN for_command(fsm, last.pre, cur.val, DefaultEffects(fsm)).e
    ELSE cur.val

\* position in the calls of the last step of the only call to f
PosOf(f) == CHOOSE i \in DOMAIN last.calls : last.calls[i].fn = f

\* C1: step calls for_command exactly for a Command; when an event results
\* it calls on_event once with the state it was given; it returns that event
\* exactly when on_event reported a change, and exactly then on_change is
\* called once, after on_event, with the state as mutated; a command with no
\* event leaves the state alone and calls neither on_event nor on_change.
C1_Step ==
    StepNo >= 1 =>
        /\ Len(CallsOf("for_command")) = (IF cur.kind = "Command" THEN 1 ELSE 0)
        /\ cur.kind = "Command" => last.calls[1] = Call("for_command", last.pre)
        /\ IF ResultingEvent = None
           THEN /\ state = last.pre
                /\ last.e = None
                /\ CallsOf("on_event") = <<>>
                /\ CallsOf("on_change") = <<>>
           ELSE /\ CallsOf("on_event") = <<Call("on_event", last.pre)>>
                /\ (last.e # None) <=> (last.r \in {"Transitioned", "Updated"})
                /\ last.r = on_event(fsm, last.pre, ResultingEvent).r
                /\ IF last.e # None
                   THEN /\ last.e = ResultingEvent
                        /\ CallsOf("on_change") = <<Call("on_change", state)>>
                        /\ state = on_event(fsm, last.pre, ResultingEvent).s
                        /\ PosOf("on_event") < PosOf("on_change")
                   ELSE CallsOf("on_change") = <<>>

\* a command produced an event that moved the state, and later an event was
\* ignored
C1_Witness ==
    /\ pc = "harness"
    /\ StepNo >= 2
    /\ fsm = "MyFsm"
    /\ cur.kind = "Event"
    /\ last.e = None
    /\ last.r = "Unchanged"
    /\ effects.started = 1
    /\ effects.transitioned_stopped_to_started = 1

(***************************************************************************)
(* Spec: a Counter machine built by machine_with_effects, connected with   *)
(* with_event_log(Vec), merge_event_log(Vec) and with_output(Sender), its  *)
(* task, the producers holding the Senders input() returned and the        *)
(* consumer holding the Receiver of the output channel.                    *)
(***************************************************************************)
\* the event histories the log may hold when the task starts: none, or
\* what earlier runs of a Counter machine logged
Histories ==
    {<<>>, <<"Tick">>, <<"Tick", "Reset">>, <<"Tick", "Tick", "Stop">>}

\* what the effector given to machine_with_effects may hold already
InitialEffects == {<<>>, <<Tock>>}

\* a logged event; n is the number of the input it came from, 0 for history
Logged(e, n) == [e |-> e, n |-> n]

\* Drain::drain_all of OutputBuffer: the items, and the effector left empty
OutputBuffer_drain_all(se) == [items |-> se, se |-> <<>>]

\* Drain::drain_all of Keyed<SE>: the items of the inner effector, each with
\* the effector's key
Keyed_drain_all(se) ==
    [items |-> [i \in 1..Len(se.item) |-> [key |-> se.key, item |-> se.item[i]]],
     se |-> [se EXCEPT !.item = <<>>]]

drain_all(se) ==
    IF fsm = "KvStore" THEN Keyed_drain_all(se) ELSE OutputBuffer_drain_all(se)

RECURSIVE NotifyAll(_, _, _)

\* for item in drain_all() { output.notify(item).await }: what is to be
\* given to the sinks of the adapter, item after item
NotifyAll(ad, items, n) ==
    IF items = <<>>
    THEN <<>>
    ELSE LET ds == Deliveries(ad, Head(items))
         IN  [i \in 1..Len(ds) |-> [item |-> ds[i].item, n |-> n, sink |-> ds[i].sink]]
                 \o NotifyAll(ad, Tail(items), n)

\* outputs drained from the effector while input number n is processed
\* and not yet notified to the sinks of the output adapter
Drained(se, n) == NotifyAll(template.output, drain_all(se).items, n)

Init ==
    /\ fsm = "Counter"
    /\ template = TestTemplate
    /\ req = NoRequest
    /\ req2 = NoRequest
    /\ NoStorage
    /\ buffer = InputCap
    /\ state = DefaultState(fsm)
    /\ effects0 \in InitialEffects
    /\ effects = effects0
    /\ last = NoStep
    /\ cur = NoInput
    /\ sender = "Some"
    /\ inq = <<>>
    /\ prod = [p \in Producers |-> [sent |-> 0, alive |-> TRUE]]
    /\ history \in Histories
    /\ log = [i \in 1..Len(history) |-> Logged(history[i], 0)]
    /\ events = <<>>
    /\ outq = <<>>
    /\ outRx = "open"
    /\ delivered = <<>>
    /\ pc = "start"
    /\ fed = 0
    /\ pending = <<>>
    /\ terminating = FALSE
    /\ result = None
    /\ trace = <<>>

\* the input channel is closed for the receiver: no Sender is left
InputClosed == sender = None /\ \A p \in Producers : ~prod[p].alive

\* the Receiver of the input channel lives until the task returns
ReceiverAlive == pc # "done"

(************************* the producers **********************************)
\* number of messages sent by the producers so far
Sent == prod[1].sent + prod[2].sent

\* a send that does not wait for room in the channel
ProducerSend_NoWait(p) ==
    /\ prod[p].alive
    /\ prod[p].sent < MaxSend
    /\ Sent < MaxInputs
    /\ ReceiverAlive
    /\ \E i \in Inputs(fsm) :
        inq' = Append(inq, [kind |-> i.kind, val |-> i.val, src |-> p,
                            seq |-> prod[p].sent + 1, at |-> Sent + 1])
    /\ prod' = [prod EXCEPT ![p].sent = @ + 1]
    /\ UNCHANGED <<storage, fsm, buffer, template, req, req2, state, effects, last, cur, sender, log, events, outq,
                   outRx, delivered, pc, fed, pending, terminating, result, history,
                   effects0, trace>>

\* Sender::send of a producer: waits for room, then queues the input
ProducerSend(p) ==
    /\ prod[p].alive
    /\ prod[p].sent < MaxSend
    /\ Sent < MaxInputs
    /\ ReceiverAlive
    /\ Len(inq) < buffer
    /\ \E i \in Inputs(fsm) :
        inq' = Append(inq, [kind |-> i.kind, val |-> i.val, src |-> p,
                            seq |-> prod[p].sent + 1, at |-> Sent + 1])
    /\ prod' = [prod EXCEPT ![p].sent = @ + 1]
    /\ UNCHANGED <<storage, fsm, buffer, template, req, req2, state, effects, last, cur, sender, log, events, outq, outRx,
                   delivered, pc, fed, pending, terminating, result, history,
                   effects0, trace>>

\* Sender::send after the task returned: the error ends the producer
ProducerSendFails(p) ==
    /\ prod[p].alive
    /\ prod[p].sent < MaxSend
    /\ Sent < MaxInputs
    /\ ~ReceiverAlive
    /\ prod' = [prod EXCEPT ![p].alive = FALSE]
    /\ UNCHANGED <<storage, fsm, buffer, template, req, req2, state, effects, last, cur, sender, inq, log, events, outq,
                   outRx, delivered, pc, fed, pending, terminating, result, history,
                   effects0, trace>>

\* the producer returns and its Sender is dropped
ProducerDrop(p) ==
    /\ prod[p].alive
    /\ prod' = [prod EXCEPT ![p].alive = FALSE]
    /\ UNCHANGED <<storage, fsm, buffer, template, req, req2, state, effects, last, cur, sender, inq, log, events, outq,
                   outRx, delivered, pc, fed, pending, terminating, result, history,
                   effects0, trace>>

(************************* the consumer ***********************************)
\* Receiver::recv of the consumer takes the oldest output
ConsumerRecv ==
    /\ outRx = "open"
    /\ outq # <<>>
    /\ delivered' = Append(delivered, Head(outq))
    /\ outq' = Tail(outq)
    /\ UNCHANGED <<storage, fsm, buffer, template, req, req2, state, effects, last, cur, sender, inq, prod, log, events,
                   outRx, pc, fed, pending, terminating, result, history, effects0,
                   trace>>

\* the consumer drops its Receiver: what the channel holds is lost
ConsumerDrop ==
    /\ outRx = "open"
    /\ outRx' = "dropped"
    /\ outq' = <<>>
    /\ UNCHANGED <<storage, fsm, buffer, template, req, req2, state, effects, last, cur, sender, inq, prod, log, events,
                   delivered, pc, fed, pending, terminating, result, history,
                   effects0, trace>>

\* recv returns None once the task has dropped the Sender: end of stream
ConsumerEnd ==
    /\ outRx = "open"
    /\ outq = <<>>
    /\ pc = "done"
    /\ outRx' = "ended"
    /\ UNCHANGED <<storage, fsm, buffer, template, req, req2, state, effects, last, cur, sender, inq, prod, log, events,
                   outq, delivered, pc, fed, pending, terminating, result, history,
                   effects0, trace>>

(************************* the task ***************************************)
\* Init::init of OutputBuffer: the effector after the call
init(se, s) == se

\* a Hydrator that runs the whole step on a historical event
HydratorNotify_Steps(s, se, a) ==
    LET r == step(fsm, s, [kind |-> "Event", val |-> a], se)
    IN  [s |-> r.s, se |-> r.se, calls |-> r.calls]

\* Hydrator::notify: on_event applied to the state, nothing else
HydratorNotify(s, se, a) ==
    [s |-> on_event(fsm, s, a).s, se |-> se, calls |-> <<Call("on_event", s)>>]

\* a task that keeps its own Sender of the input channel
TaskStart_KeepsSender ==
    /\ pc = "start"
    /\ sender' = sender
    /\ state' = DefaultState(fsm)
    /\ fed' = 0
    /\ pc' = "hydrate"
    /\ trace' = Append(trace, <<"start", Len(inq)>>)
    /\ UNCHANGED <<storage, fsm, buffer, template, req, req2, effects, last, cur, inq, prod, log, events, outq, outRx,
                   delivered, pending, terminating, result, history, effects0>>

\* task: drop the local Sender and construct the default state
TaskStart ==
    /\ pc = "start"
    /\ sender' = None
    /\ state' = DefaultState(fsm)
    /\ fed' = 0
    /\ pc' = "hydrate"
    /\ trace' = Append(trace, <<"start", Len(inq)>>)
    /\ UNCHANGED <<storage, fsm, buffer, template, req, req2, effects, last, cur, inq, prod, log, events, outq, outRx,
                   delivered, pending, terminating, result, history, effects0>>

\* Feed::feed of Template.log: a Vec feeds the events it holds, a
\* Placeholder feeds nothing and returns Ok
Feed == IF template.log.a = "Placeholder" THEN <<>> ELSE log

\* task: Vec::feed passes the next historical event to the Hydrator
TaskFeed ==
    /\ pc = "hydrate"
    /\ fed < Len(Feed)
    /\ LET r == HydratorNotify(state, effects, Feed[fed + 1].e)
       IN  /\ state' = r.s
           /\ effects' = r.se
           /\ last' = [pre |-> state, e |-> None, r |-> "Hydrated", calls |-> r.calls]
    /\ fed' = fed + 1
    /\ trace' = Append(trace, <<"feed", fed + 1>>)
    /\ UNCHANGED <<storage, fsm, buffer, template, req, req2, cur, sender, inq, prod, log, events, outq, outRx, delivered,
                   pc, pending, terminating, result, history, effects0>>

\* a task that enters the main loop without draining the effector first
TaskInit_NoFlush ==
    /\ pc = "hydrate"
    /\ fed = Len(Feed)
    /\ effects' = init(effects, state)
    /\ pc' = "recv"
    /\ trace' = Append(trace, <<"init", state>>)
    /\ UNCHANGED <<storage, fsm, buffer, template, req, req2, state, last, cur, sender, inq, prod, log, events, outq,
                   outRx, delivered, fed, pending, terminating, result, history,
                   effects0>>

\* task: the feed is over; init the effector with the state and drain it
TaskInit ==
    /\ pc = "hydrate"
    /\ fed = Len(Feed)
    /\ pending' = Drained(init(effects, state), 0)
    /\ effects' = drain_all(init(effects, state)).se
    /\ pc' = "flush"
    /\ trace' = Append(trace, <<"init", state>>)
    /\ UNCHANGED <<storage, fsm, buffer, template, req, req2, state, last, cur, sender, inq, prod, log, events, outq,
                   outRx, delivered, fed, terminating, result, history, effects0>>

\* task: output.notify(item) on an mpsc Sender: the item is queued when
\* there is room; when the Receiver is gone the error of send is discarded
TaskNotifyOutput ==
    /\ pc = "flush"
    /\ pending # <<>>
    /\ \/ /\ outRx = "open"
          /\ Len(outq) < OutCap
          /\ outq' = Append(outq, Head(pending))
          /\ trace' = Append(trace, <<"out", Head(pending).n>>)
       \/ /\ outRx # "open"
          /\ outq' = outq
          /\ trace' = Append(trace, <<"lost", Head(pending).n>>)
    /\ pending' = Tail(pending)
    /\ UNCHANGED <<storage, fsm, buffer, template, req, req2, state, effects, last, cur, sender, inq, prod, log, events,
                   outRx, delivered, pc, fed, terminating, result, history, effects0>>

\* a main loop that does not break on a terminating event
TaskFlushDone_NoBreak ==
    /\ pc = "flush"
    /\ pending = <<>>
    /\ pc' = "recv"
    /\ UNCHANGED <<storage, fsm, buffer, template, req, req2, state, effects, last, cur, sender, inq, prod, log, events,
                   outq, outRx, delivered, fed, pending, terminating, history,
                   effects0, result, trace>>

\* task: every drained output was notified; break on a terminating event,
\* else wait for the next input
TaskFlushDone ==
    /\ pc = "flush"
    /\ pending = <<>>
    /\ IF terminating
       THEN /\ pc' = "done"
            /\ result' = "Ok"
            /\ trace' = Append(trace, <<"return", StepNo>>)
       ELSE /\ pc' = "recv"
            /\ UNCHANGED <<result, trace>>
    /\ UNCHANGED <<storage, fsm, buffer, template, req, req2, state, effects, last, cur, sender, inq, prod, log, events,
                   outq, outRx, delivered, fed, pending, terminating, history,
                   effects0>>

\* what the Requester's call gets when the query is answered from the
\* store: get the value there, upsert Found or NotFound, insert the Path of
\* the event, the others the entries found
Requester_reply(store, c) ==
    LET r == KvStore_for_command(store, c, KeyedDefault)
    IN  CASE c.q = "Get" ->
                IF r.seen = "Some"
                THEN [is |-> "Some", v |-> store[c.path]]
                ELSE [is |-> "None"]
          [] c.q = "Upsert" ->
                [is |-> IF r.seen = "Some" THEN "Found" ELSE "NotFound"]
          [] c.q = "Insert" -> [is |-> "Path", v |-> KeyOf(r.e)]
          [] OTHER -> [is |-> "Many", v |-> r.seen]

\* respond_one and respond_many: the respond function of the Requester's
\* query, called by for_command, sends the reply on the oneshot channel
Responded(rq, input, store) ==
    IF rq.st = "waiting" /\ input.at = rq.at
    THEN [rq EXCEPT !.st = "replied", !.reply = Requester_reply(store, input.val)]
    ELSE rq

\* a main loop that drains the effector at once and never logs the event
Process_NeverLogs(input, rest) ==
    LET r == step(fsm, state, input, effects)
        n == StepNo + 1
    IN  /\ cur' = input
        /\ inq' = rest
        /\ state' = r.s
        /\ last' = [pre |-> state, e |-> r.e, r |-> r.r, calls |-> r.calls]
        /\ terminating' = (r.e # None /\ Terminating(r.e))
        /\ req' = Responded(req, input, state)
        /\ req2' = Responded(req2, input, state)
        /\ trace' = Append(trace, <<"step", n, input.src, input.seq, r.e>>)
        /\ pc' = "flush"
        /\ effects' = drain_all(r.se).se
        /\ pending' = Drained(r.se, n)
        /\ UNCHANGED <<storage, fsm, buffer, template, sender, prod, log, events, outq, outRx, delivered, fed,
                       result, history, effects0>>

\* the body of the main loop up to its first await: step the input, and
\* either go on to log the event or, with no event, drain the effector
Process(input, rest) ==
    LET r == step(fsm, state, input, effects)
        n == StepNo + 1
    IN  /\ cur' = input
        /\ inq' = rest
        /\ state' = r.s
        /\ last' = [pre |-> state, e |-> r.e, r |-> r.r, calls |-> r.calls]
        /\ terminating' = (r.e # None /\ Terminating(r.e))
        /\ req' = Responded(req, input, state)
        /\ req2' = Responded(req2, input, state)
        /\ trace' = Append(trace, <<"step", n, input.src, input.seq, r.e>>)
        /\ IF r.e # None
           THEN /\ pc' = "log"
                /\ effects' = r.se
                /\ pending' = <<>>
           ELSE /\ pc' = "flush"
                /\ effects' = drain_all(r.se).se
                /\ pending' = Drained(r.se, n)
        /\ UNCHANGED <<storage, fsm, buffer, template, sender, prod, log, events, outq, outRx, delivered, fed,
                       result, history, effects0>>

\* a receiver that returns the newest queued input
TaskRecv_Newest ==
    /\ pc = "recv"
    /\ inq # <<>>
    /\ Process(inq[Len(inq)], SubSeq(inq, 1, Len(inq) - 1))

\* task: receiver.recv() returns the oldest queued input
TaskRecv ==
    /\ pc = "recv"
    /\ inq # <<>>
    /\ Process(Head(inq), Tail(inq))

\* task: log.clone_notify(&e) pushes a clone of the event on the Vec; a
\* Placeholder discards it
TaskLog ==
    /\ pc = "log"
    /\ log' = IF template.log.a = "Placeholder"
              THEN log
              ELSE Append(log, Logged(last.e, StepNo))
    /\ pc' = "events"
    /\ trace' = Append(trace, <<"log", StepNo>>)
    /\ UNCHANGED <<storage, fsm, buffer, template, req, req2, state, effects, last, cur, sender, inq, prod, events, outq,
                   outRx, delivered, fed, pending, terminating, result, history,
                   effects0>>

\* a task that notifies Template.events of the events received only, not of
\* those a command produced
TaskEvents_InputOnly ==
    /\ pc = "events"
    /\ events' = IF cur.kind = "Event"
                 THEN Append(events, Logged(last.e, StepNo))
                 ELSE events
    /\ pending' = Drained(effects, StepNo)
    /\ effects' = drain_all(effects).se
    /\ pc' = "flush"
    /\ trace' = Append(trace, <<"events", StepNo>>)
    /\ UNCHANGED <<storage, fsm, buffer, template, req, req2, state, last, cur, sender, inq, prod, log,
                   outq, outRx, delivered, fed, terminating, result, history,
                   effects0>>

\* task: events.notify(e) pushes the event, or discards it when events is
\* the Placeholder, then the effector is drained
TaskEvents ==
    /\ pc = "events"
    /\ events' = IF template.events.a = "Placeholder"
                 THEN events
                 ELSE Append(events, Logged(last.e, StepNo))
    /\ pending' = Drained(effects, StepNo)
    /\ effects' = drain_all(effects).se
    /\ pc' = "flush"
    /\ trace' = Append(trace, <<"events", StepNo>>)
    /\ UNCHANGED <<storage, fsm, buffer, template, req, req2, state, last, cur, sender, inq, prod, log, outq, outRx,
                   delivered, fed, terminating, result, history, effects0>>

\* task: recv returns None, the channel is closed and empty; return Ok(())
TaskReturn ==
    /\ pc = "recv"
    /\ inq = <<>>
    /\ InputClosed
    /\ pc' = "done"
    /\ result' = "Ok"
    /\ trace' = Append(trace, <<"return", StepNo>>)
    /\ UNCHANGED <<storage, fsm, buffer, template, req, req2, state, effects, last, cur, sender, inq, prod, log, events,
                   outq, outRx, delivered, fed, pending, terminating, history,
                   effects0>>

Next ==
    \/ \E p \in Producers : ProducerSend(p)
    \/ \E p \in Producers : ProducerSendFails(p)
    \/ \E p \in Producers : ProducerDrop(p)
    \/ ConsumerRecv
    \/ ConsumerDrop
    \/ ConsumerEnd
    \/ TaskStart
    \/ TaskFeed
    \/ TaskInit
    \/ TaskNotifyOutput
    \/ TaskFlushDone
    \/ TaskRecv
    \/ TaskLog
    \/ TaskEvents
    \/ TaskReturn

Spec == Init /\ [][Next]_vars

\* the steps of the task
TaskNext ==
    \/ TaskStart
    \/ TaskFeed
    \/ TaskInit
    \/ TaskNotifyOutput
    \/ TaskFlushDone
    \/ TaskRecv
    \/ TaskLog
    \/ TaskEvents
    \/ TaskReturn

\* The runtime polls a task that can make progress, and the consumer of the
\* tests receives in a loop for as long as it holds its Receiver.
FairSpec == Spec /\ WF_vars(TaskNext) /\ WF_vars(ConsumerRecv)

(***************************************************************************)
(* Claims about the task.                                                  *)
(***************************************************************************)
\* the trace has an entry of operation op for input number n
Did(op, n) == \E i \in DOMAIN trace : trace[i][1] = op /\ trace[i][2] = n

\* some output drained while input number n was processed exists somewhere
OutputOf(n) ==
    \/ \E i \in DOMAIN pending : pending[i].n = n
    \/ \E i \in DOMAIN outq : outq[i].n = n
    \/ \E i \in DOMAIN delivered : delivered[i].n = n
    \/ Did("out", n)
    \/ Did("lost", n)

\* C2: in a running task, an input whose event on_event ignores leaves the
\* state as it was, on_change is not called, nothing is appended to the log
\* or to the merged event adapter, and no output reaches the output adapter.
C2_IgnoredEvent ==
    (pc \notin {"harness", "start", "hydrate"} /\ last.r = "Unchanged") =>
        /\ state = last.pre
        /\ CallsOf("on_change") = <<>>
        /\ pc \notin {"log", "events"}
        /\ ~Did("log", StepNo)
        /\ ~Did("events", StepNo)
        /\ \A i \in DOMAIN log : log[i].n # StepNo
        /\ \A i \in DOMAIN events : events[i].n # StepNo
        /\ effects = <<>>
        /\ ~OutputOf(StepNo)

\* a Reset was received by a counter at zero and the task went on to wait
\* for the next input
C2_Witness ==
    /\ pc = "recv"
    /\ StepNo = 2
    /\ cur.val = "Reset"
    /\ last.r = "Unchanged"
    /\ state.count = 0
    /\ Len(log) > Len(history)

\* the state a new task has after the feed of the event log evs
RECURSIVE Hydrated(_, _)
Hydrated(s, evs) ==
    IF evs = <<>> THEN s
    ELSE Hydrated(HydratorNotify(s, <<>>, Head(evs).e).s, Tail(evs))

\* C3: replay equivalence.  Whenever the task has logged the event of its
\* last step, a new task started on the log hydrates the state the task has;
\* while that event is still to be logged, the log with it does.
C3_ReplayEquivalence ==
    /\ pc \in {"events", "flush", "recv", "done"} =>
           Hydrated(DefaultState(fsm), log) = state
    /\ pc = "log" =>
           Hydrated(DefaultState(fsm), Append(log, Logged(last.e, StepNo))) = state

\* two Ticks were logged after a history that ended with a Reset
C3_Witness ==
    /\ pc = "recv"
    /\ Len(history) = 2
    /\ Len(log) = Len(history) + 2
    /\ log[Len(log)].e = "Tick"
    /\ state.count = 2

\* C4: while the log is fed to the Hydrator each event goes through on_event
\* only: on_change is not called, the effector is as it was given, nothing is
\* appended to the log or to the merged event adapter, and nothing is given
\* to the output adapter.
C4_HydrationSilent ==
    pc = "hydrate" =>
        /\ fed > 0 => last.calls = <<Call("on_event", last.pre)>>
        /\ effects = effects0
        /\ Len(log) = Len(history)
        /\ \A i \in DOMAIN log : log[i] = Logged(history[i], 0)
        /\ events = <<>>
        /\ pending = <<>>
        /\ outq = <<>>
        /\ delivered = <<>>
        /\ \A i \in DOMAIN trace : trace[i][1] \in {"start", "feed"}

\* the feed has replayed a Tick and the Reset that zeroed the count, an event
\* that gives a Tock when it is stepped
C4_Witness ==
    /\ pc = "hydrate"
    /\ fed = 2
    /\ history = <<"Tick", "Reset">>
    /\ state.count = 0
    /\ last.pre.count = 1

\* positions in the trace of the entries of operation op
At(op) == {i \in DOMAIN trace : trace[i][1] = op}

\* positions in the trace where an output drained for input n was notified
NotifiedAt(n) ==
    {i \in DOMAIN trace : trace[i][1] \in {"out", "lost"} /\ trace[i][2] = n}

\* C5: when the first input is stepped the feed of the log is complete, init
\* was called once, with the hydrated state, and every output the effector
\* held after init was notified to the output adapter, all before the step.
C5_HydrateInitFlushFirst ==
    StepNo >= 1 =>
        LET first == CHOOSE i \in At("step") : trace[i][2] = 1
        IN  /\ fed = Len(history)
            /\ Cardinality(At("feed")) = Len(history)
            /\ Cardinality(At("init")) = 1
            /\ \A i \in At("init") :
                   /\ trace[i][2] = Hydrated(DefaultState(fsm), SubSeq(log, 1, Len(history)))
                   /\ \A j \in At("feed") : j < i
                   /\ \A j \in NotifiedAt(0) : i < j
                   /\ i < first
            /\ Cardinality(NotifiedAt(0)) = Len(init(effects0, state))
            /\ \A j \in NotifiedAt(0) : j < first

\* an input was queued before the task started, the log held a history that
\* moved the state, the effector held an output, and the input was stepped
C5_Witness ==
    /\ StepNo >= 1
    /\ trace[1][1] = "start"
    /\ trace[1][2] >= 1
    /\ history = <<"Tick">>
    /\ effects0 = <<Tock>>
    /\ \E i \in DOMAIN delivered : delivered[i].n = 0

\* the events the steps made so far returned, in order
Returned ==
    LET steps == SelectSeq(trace, LAMBDA x : x[1] = "step")
        some == SelectSeq(steps, LAMBDA x : x[5] # None)
    IN  [i \in DOMAIN some |-> Logged(some[i][5], some[i][2])]

\* the events the task appended to the log
Appended == SubSeq(log, Len(history) + 1, Len(log))

\* C6: the event of a step is notified to the log before any output of that
\* step is notified, every output of a step is notified before the next
\* input is stepped, and so the log holds the events, and the output adapter
\* got the outputs, in the order step produced them.
C6_LogThenFlushInOrder ==
    /\ \A i, j \in DOMAIN trace :
           (trace[i][1] = "log" /\ j \in NotifiedAt(trace[i][2])) => i < j
    /\ \A i, j \in DOMAIN trace :
           (trace[i][1] = "step" /\ trace[j][1] \in {"out", "lost"}) =>
               (j < i <=> trace[j][2] < trace[i][2])
    /\ \A i \in At("step") : trace[i][5] # None =>
           \/ Did("log", trace[i][2])
           \/ (pc = "log" /\ trace[i][2] = StepNo)
    /\ pc = "recv" => (effects = <<>> /\ pending = <<>>)
    /\ pc \in {"events", "flush", "recv", "done"} => Appended = Returned
    /\ \A i, j \in DOMAIN delivered : i < j => delivered[i].n <= delivered[j].n

\* the output of init and then the output of a logged Reset reached the
\* consumer, and two events are in the log
C6_Witness ==
    /\ Len(delivered) = 2
    /\ delivered[1].n = 0
    /\ delivered[2].n >= 1
    /\ Len(Appended) = 2
    /\ pc = "recv"

\* C7, as claimed: once a notify has failed because its destination is
\* closed the task steps no further input, notifies nothing more and returns
\* the channel-closed error.
C7_NotifyFailureAborts ==
    \A i \in At("lost") :
        /\ \A j \in DOMAIN trace : j > i => trace[j][1] = "return"
        /\ pc = "done" => result = "ChannelClosed"

\* the task has returned and not because of a terminating event
Drained8 == pc = "done" /\ ~terminating

\* C8: the task returns Ok; its own Sender is gone from the start, so that
\* with every producer's Sender dropped and the channel empty the channel is
\* closed for the receiver; and a task that returned without a terminating
\* event has stepped every input the channel accepted, in the absence of
\* which it does not return.
C8_ReturnsWhenClosedAndDrained ==
    /\ pc = "done" => result = "Ok"
    /\ pc # "start" => sender = None
    /\ (pc = "recv" /\ inq = <<>> /\ \A p \in Producers : ~prod[p].alive) =>
           InputClosed
    /\ Drained8 =>
           /\ inq = <<>>
           /\ \A p \in Producers : ~prod[p].alive
           /\ StepNo = Sent
           /\ pending = <<>>
           /\ effects = <<>>

\* C8, the progress it claims: once every producer has dropped its Sender
\* the task steps what is queued and returns Ok.
C8_ClosedLeadsToReturn ==
    /\ [](C8_ReturnsWhenClosedAndDrained)
    /\ (\A p \in Producers : ~prod[p].alive) ~> (pc = "done" /\ result = "Ok")

\* both producers sent an input and dropped their Senders; the task stepped
\* both inputs and returned
C8_Witness ==
    /\ Drained8
    /\ result = "Ok"
    /\ StepNo = 2
    /\ prod[1].sent = 1
    /\ prod[2].sent = 1

\* number of outputs the last step left in the effector
Produced == Len(on_change(fsm, state, last.e, <<>>))

\* the last step of the main loop returned a terminating event
TerminatingStep ==
    /\ pc \notin {"harness", "start", "hydrate"}
    /\ StepNo >= 1
    /\ last.r \in {"Transitioned", "Updated"}
    /\ Terminating(last.e)

Steps == SelectSeq(trace, LAMBDA x : x[1] = "step")

\* C10: inputs are stepped one at a time in the order the channel accepted
\* them, each producer's inputs in the order it sent them, and an input is
\* received only when the one before is done with: its event logged and its
\* outputs notified.
C10_SerializedInQueueOrder ==
    /\ \A i \in DOMAIN Steps : Steps[i][2] = i
    /\ StepNo >= 1 => cur.at = StepNo
    /\ \A i \in DOMAIN inq : inq[i].at = StepNo + i
    /\ \A i \in DOMAIN Steps :
           Steps[i][4] = Cardinality({j \in 1..i : Steps[j][3] = Steps[i][3]})
    /\ (pc = "recv" /\ StepNo >= 1) =>
           /\ effects = <<>>
           /\ pending = <<>>
           /\ last.e # None => /\ log[Len(log)] = Logged(last.e, StepNo)
                               /\ events[Len(events)] = Logged(last.e, StepNo)
           /\ Cardinality(NotifiedAt(StepNo)) = (IF last.e = None THEN 0 ELSE Produced)

\* two inputs of one producer were stepped with both still queued at once
C10_Witness ==
    /\ StepNo = 2
    /\ Steps[1][3] = 1
    /\ Steps[2][3] = 1
    /\ Steps[1][5] = "Tick"
    /\ Steps[2][5] = "Reset"
    /\ trace[1] = <<"start", 2>>

(***************************************************************************)
(* SpecBuffer: the Counter machine of Spec built with each buffer size up  *)
(* to InputCap, so that producers meet a full input channel.               *)
(***************************************************************************)
InitBuffer ==
    /\ fsm = "Counter"
    /\ template = TestTemplate
    /\ req = NoRequest
    /\ req2 = NoRequest
    /\ NoStorage
    /\ buffer \in 1..InputCap
    /\ state = DefaultState(fsm)
    /\ effects0 = <<>>
    /\ effects = effects0
    /\ last = NoStep
    /\ cur = NoInput
    /\ sender = "Some"
    /\ inq = <<>>
    /\ prod = [p \in Producers |-> [sent |-> 0, alive |-> TRUE]]
    /\ history \in {<<>>, <<"Tick">>}
    /\ log = [i \in 1..Len(history) |-> Logged(history[i], 0)]
    /\ events = <<>>
    /\ outq = <<>>
    /\ outRx = "open"
    /\ delivered = <<>>
    /\ pc = "start"
    /\ fed = 0
    /\ pending = <<>>
    /\ terminating = FALSE
    /\ result = None
    /\ trace = <<>>

SpecBuffer == InitBuffer /\ [][Next]_vars

\* the inputs of producer p the task has stepped, and those still queued
SteppedOf(p) == SelectSeq(Steps, LAMBDA x : x[3] = p)
QueuedOf(p) == SelectSeq(inq, LAMBDA x : x.src = p)

\* a send completes only when the channel holds fewer items than its buffer
SendWaitsForRoom ==
    \A p \in Producers :
        prod'[p].sent = prod[p].sent + 1 =>
            /\ Len(inq) < buffer
            /\ Len(inq') = Len(inq) + 1
            /\ SubSeq(inq', 1, Len(inq)) = inq

\* while the task runs every input sent is either stepped or still queued,
\* once, in the order the channel accepted it
NoInputLost ==
    pc # "done" =>
        /\ StepNo + Len(inq) = Sent
        /\ \A i \in DOMAIN inq : inq[i].at = StepNo + i
        /\ \A p \in Producers :
            /\ Len(SteppedOf(p)) + Len(QueuedOf(p)) = prod[p].sent
            /\ \A i \in DOMAIN SteppedOf(p) : SteppedOf(p)[i][4] = i
            /\ \A i \in DOMAIN QueuedOf(p) :
                   QueuedOf(p)[i].seq = Len(SteppedOf(p)) + i

\* C11: the input channel never holds more than its buffer; a send completes
\* only when there is room, so that a sender meeting a full channel waits
\* until the task has received an item; and every input a sender completed
\* sending is stepped exactly once while the task runs.
C11_BoundedQueueNoLoss ==
    /\ [](Len(inq) <= buffer /\ NoInputLost)
    /\ [][SendWaitsForRoom]_vars

\* with a buffer of one a second input was queued after the task received
\* the first, while the channel was full again
C11_Witness ==
    /\ buffer = 1
    /\ StepNo = 1
    /\ Len(inq) = buffer
    /\ Sent = 2

\* C12, as claimed: the task never goes past an output its destination did
\* not accept, so that every output drained from the effector is waiting to
\* be notified, queued in the output channel or delivered to the consumer.
C12_OutputsBlockNeverDropped ==
    /\ \A i \in DOMAIN trace : trace[i][1] # "lost"
    /\ outRx = "open" =>
           Cardinality(At("out")) = Len(outq) + Len(delivered)

(***************************************************************************)
(* SpecKv: a KvStore<Counter> machine run by the same task, with a Vec as  *)
(* event log, started on the log of an earlier run; one task holds a       *)
(* Sender of its input channel.                                            *)
(***************************************************************************)
\* the logs earlier runs of a KvStore machine may have written
KvHistories ==
    {<<>>,
     <<Keyed(root, "Tick")>>,
     <<Keyed(root, "Tick"), Keyed(<<Number(1)>>, "Tick")>>,
     <<Keyed(root, "Tick"), Keyed(<<Number(1)>>, "Tick"), Keyed(root, "Stop")>>}

InitKv ==
    /\ fsm = "KvStore"
    /\ template = TestTemplate
    /\ req = NoRequest
    /\ req2 = NoRequest
    /\ NoStorage
    /\ buffer = InputCap
    /\ state = DefaultState(fsm)
    /\ effects0 = DefaultEffects(fsm)
    /\ effects = effects0
    /\ last = NoStep
    /\ cur = NoInput
    /\ sender = "Some"
    /\ inq = <<>>
    /\ prod = [p \in Producers |-> [sent |-> 0, alive |-> p = 1]]
    /\ history \in KvHistories
    /\ log = [i \in 1..Len(history) |-> Logged(history[i], 0)]
    /\ events = <<>>
    /\ outq = <<>>
    /\ outRx = "open"
    /\ delivered = <<>>
    /\ pc = "start"
    /\ fed = 0
    /\ pending = <<>>
    /\ terminating = FALSE
    /\ result = None
    /\ trace = <<>>

\* no event of a KvStore is terminating for the machine, so its task
\* returns only when every Sender is gone and no send can fail; the
\* consumer of the outputs keeps its Receiver
NextKv ==
    \/ \E p \in Producers : ProducerSend(p)
    \/ \E p \in Producers : ProducerDrop(p)
    \/ ConsumerRecv
    \/ ConsumerEnd
    \/ TaskStart
    \/ TaskFeed
    \/ TaskInit
    \/ TaskNotifyOutput
    \/ TaskFlushDone
    \/ TaskRecv
    \/ TaskLog
    \/ TaskEvents
    \/ TaskReturn

SpecKv == InitKv /\ [][NextKv]_vars

(***************************************************************************)
(* SpecPath: the order of Path, applied to every three paths.              *)
(* SpecQuery: the queries GetTree and GetAll made of stores holding every  *)
(* combination of at most MaxKeys keys.                                    *)
(***************************************************************************)
InitPath ==
    /\ fsm = "KvStore"
    /\ template = TestTemplate
    /\ req = NoRequest
    /\ req2 = NoRequest
    /\ NoStorage
    /\ buffer = InputCap
    /\ state = DefaultState(fsm)
    /\ effects0 = DefaultEffects(fsm)
    /\ effects = effects0
    /\ last = NoStep
    /\ cur = NoInput
    /\ sender = "Some"
    /\ inq = <<>>
    /\ prod = [p \in Producers |-> [sent |-> 0, alive |-> FALSE]]
    /\ history = <<>>
    /\ log = <<>>
    /\ events = <<>>
    /\ outq = <<>>
    /\ outRx = "open"
    /\ delivered = <<>>
    /\ pc = "paths"
    /\ fed = 0
    /\ pending = <<>>
    /\ terminating = FALSE
    /\ result = None
    /\ trace = <<>>

\* Ord::cmp of three paths, each with each, and the three as keys of a map
ComparePaths ==
    /\ pc = "paths"
    /\ \E p, q, r \in Paths :
        /\ cur' = [kind |-> "Compare", p |-> p, q |-> q, r |-> r]
        /\ last' = [pq |-> PathCmp(p, q), qp |-> PathCmp(q, p), qr |-> PathCmp(q, r),
                    pr |-> PathCmp(p, r), ordered |-> Ordered({p, q, r})]
    /\ pc' = "compared"
    /\ UNCHANGED <<storage, fsm, buffer, template, req, req2, state, effects, sender, inq, prod, log, events, outq,
                   outRx, delivered, fed, pending, terminating, result, history,
                   effects0, trace>>

SpecPath == InitPath /\ [][ComparePaths]_vars

\* the sets of at most n keys
RECURSIVE KeySets(_)
KeySets(n) ==
    IF n = 0 THEN {{}}
    ELSE LET S == KeySets(n - 1) IN S \cup {ks \cup {k} : ks \in S, k \in Paths}

\* a store with the keys ks; the child at a key has counted the key's items
StoreOf(ks) == [k \in ks |-> [count |-> Len(k)]]

\* for_command with GetTree(p) or GetAll on a store
QueryStore ==
    /\ pc = "paths"
    /\ \E ks \in KeySets(MaxKeys), p \in Paths, q \in {"GetTree", "GetAll"} :
        LET c == [q |-> q, path |-> p]
            f == KvStore_for_command(StoreOf(ks), c, effects)
        IN  /\ state' = StoreOf(ks)
            /\ cur' = [kind |-> "Command", val |-> c]
            /\ last' = [pre |-> StoreOf(ks), e |-> f.e, seen |-> f.seen]
    /\ pc' = "queried"
    /\ UNCHANGED <<storage, fsm, buffer, template, req, req2, effects, sender, inq, prod, log, events, outq, outRx,
                   delivered, fed, pending, terminating, result, history, effects0,
                   trace>>

SpecQuery == InitPath /\ [][QueryStore]_vars

\* p is a prefix of q: the first Len(p) items of q are those of p
IsPrefix(p, q) == Len(p) <= Len(q) /\ SubSeq(q, 1, Len(p)) = p

\* p <= q in the order of Path
PathLe(p, q) == PathCmp(p, q) # "Greater"

\* the first index at which p and q differ, 0 if one is a prefix of the other
FirstDiff(p, q) ==
    LET d == {i \in 1..Len(p) : i <= Len(q) /\ p[i] # q[i]}
    IN  IF d = {} THEN 0 ELSE CHOOSE i \in d : \A j \in d : i <= j

\* C19, as claimed: GetTree(p) gives respond the entries whose key is p or
\* has p as a strict prefix, and no entry whose key does not start with p.
C19_GetTreeIsSubtree ==
    (pc = "queried" /\ cur.val.q = "GetTree") =>
        {last.seen[i].key : i \in DOMAIN last.seen}
            = {k \in DOMAIN state : IsPrefix(cur.val.path, k)}

\* C20: the order of Path is total: any two paths compare, each way round
\* consistently, equal only when they are the same path, and transitively;
\* it is lexicographic: decided by the first item at which they differ, and
\* by the lengths if there is none; so a prefix of a path is at or before
\* it, and the keys of a map come with every key after its prefixes.
C20_PathOrder ==
    pc = "compared" =>
        LET p == cur.p
            q == cur.q
            r == cur.r
            i == FirstDiff(p, q)
        IN  /\ last.pq \in {"Less", "Equal", "Greater"}
            /\ last.pq = "Equal" <=> p = q
            /\ last.pq = "Less" <=> last.qp = "Greater"
            /\ (last.pq # "Greater" /\ last.qr # "Greater") => last.pr # "Greater"
            /\ last.pq = (IF i = 0 THEN NumCmp(Len(p), Len(q))
                          ELSE PathItemCmp(p[i], q[i]))
            /\ IsPrefix(p, q) => last.pq # "Greater"
            /\ \A m, n \in DOMAIN last.ordered :
                   (m # n /\ IsPrefix(last.ordered[m], last.ordered[n])) => m < n

\* a path with a number was compared with a longer path that sorts before
\* it, and with one of its own extensions
C20_Witness ==
    /\ pc = "compared"
    /\ cur.p = <<Number(65)>>
    /\ cur.q = <<Number(1), Name(<<97>>)>>
    /\ cur.r = <<Number(65), Name(<<97, 98>>)>>
    /\ last.pq = "Greater"
    /\ last.pr = "Less"

(***************************************************************************)
(* Claims about the KvStore.                                               *)
(***************************************************************************)
\* on_event was called by the last feed or step
KvOnEvent == \E i \in DOMAIN last.calls : last.calls[i].fn = "on_event"

\* the keyed event that call was given: the historical event fed, the event
\* received, or the event for_command gave for the query received
KvApplied ==
    IF last.r = "Hydrated" THEN log[fed].e
    ELSE IF cur.kind = "Command"
         THEN KvStore_for_command(last.pre, cur.val, KeyedDefault).e
         ELSE cur.val

\* the entries of the store before the call, other than that of key k, are
\* in the store as they were
OthersKept(k) ==
    \A x \in DOMAIN last.pre \ {k} : x \in DOMAIN state /\ state[x] = last.pre[x]

\* C13: a non-terminating event for an absent Path inserts a default child
\* at that Path and applies the child's on_event to it; for a present Path
\* the child's on_event is applied to the child state there; no other entry
\* is touched.
C13_RoutesToChild ==
    (KvOnEvent /\ ~Counter_terminating(ItemOf(KvApplied))) =>
        LET k == KeyOf(KvApplied)
            a == ItemOf(KvApplied)
            was == IF k \in DOMAIN last.pre THEN last.pre[k] ELSE DefaultState("Counter")
            r == KvStore_on_event(last.pre, KvApplied)
        IN  /\ DOMAIN state = DOMAIN last.pre \cup {k}
            /\ state[k] = Counter_on_event(was, a).s
            /\ OthersKept(k)
            /\ r.child = <<[s |-> was, e |-> a]>>
            /\ r.inserted <=> k \notin DOMAIN last.pre

\* with a child at the root, a Tick for the absent key /1 was stepped: a
\* child counting one is there, next to the root's
C13_Witness ==
    /\ pc = "recv"
    /\ cur.kind = "Event"
    /\ cur.val = Keyed(<<Number(1)>>, "Tick")
    /\ DOMAIN last.pre = {root}
    /\ DOMAIN state = {root, <<Number(1)>>}
    /\ state[<<Number(1)>>].count = 1

C16_NoChangeLeavesStore ==
    (KvOnEvent /\ KvStore_on_event(last.pre, KvApplied).r = "Unchanged") =>
        /\ DOMAIN state = DOMAIN last.pre
        /\ \A k \in DOMAIN state : state[k] = last.pre[k]

\* the store a fresh KvStore machine hydrates from the log
KvHydrated == Hydrated(EmptyStore, log)

\* C17, as claimed: once an input is processed, a fresh KvStore hydrated
\* from the log holds the Paths of the live map, with equal child states.
C17_KvReplayEquivalence ==
    pc \in {"flush", "recv", "done"} =>
        /\ DOMAIN KvHydrated = DOMAIN state
        /\ \A k \in DOMAIN state : KvHydrated[k] = state[k]

\* C18: Get, GetTree, GetRange and GetAll give no event and leave the map
\* as it was, on_event not being called; Upsert and Insert give an event,
\* and the map after them is the map on_event makes of the map before with
\* that event, on_event being called once.
C18_QueriesReadOnly ==
    (pc \notin {"start", "hydrate"} /\ cur.kind = "Command") =>
        LET f == KvStore_for_command(last.pre, cur.val, KeyedDefault)
        IN  /\ last.calls[1] = Call("for_command", last.pre)
            /\ cur.val.q \in {"Get", "GetTree", "GetRange", "GetAll"} =>
                   /\ f.e = None
                   /\ last.e = None
                   /\ Len(last.calls) = 1
                   /\ state = last.pre
            /\ cur.val.q \in {"Upsert", "Insert"} =>
                   /\ f.e # None
                   /\ Len(CallsOf("on_event")) = 1
                   /\ last.calls[2] = Call("on_event", last.pre)
                   /\ state = KvStore_on_event(last.pre, f.e).s

\* an Upsert of the absent root was stepped: its respond was given None and
\* returned a Tick, and the root's child now counts one
C18_Witness ==
    /\ pc = "recv"
    /\ cur.kind = "Command"
    /\ cur.val.q = "Upsert"
    /\ cur.val.path = root
    /\ DOMAIN last.pre = {}
    /\ DOMAIN state = {root}
    /\ state[root].count = 1
    /\ last.e = Keyed(root, "Tick")

\* the task stepped a terminating event of a child as input number n
SteppedStop(n) ==
    \E i \in DOMAIN trace :
        /\ trace[i][1] = "step" /\ trace[i][2] = n /\ trace[i][5] # None
        /\ Counter_terminating(ItemOf(trace[i][5]))

ProducerTicks == 99

InitTicks ==
    /\ fsm = "Counter"
    /\ template = TestTemplate
    /\ req = NoRequest
    /\ req2 = NoRequest
    /\ NoStorage
    /\ buffer = InputCap
    /\ state = DefaultState(fsm)
    /\ effects0 = DefaultEffects(fsm)
    /\ effects = effects0
    /\ last = NoStep
    /\ cur = NoInput
    /\ sender = "Some"
    /\ inq = <<>>
    /\ prod = [p \in Producers |-> [sent |-> 0, alive |-> p = 1]]
    /\ history = <<>>
    /\ log = <<>>
    /\ events = <<>>
    /\ outq = <<>>
    /\ outRx = "open"
    /\ delivered = <<>>
    /\ pc = "start"
    /\ fed = 0
    /\ pending = <<>>
    /\ terminating = FALSE
    /\ result = None
    /\ trace = <<>>

\* the producer sends the next Tick, waiting for room in the channel
ProducerTick ==
    /\ prod[1].alive
    /\ prod[1].sent < ProducerTicks
    /\ Len(inq) < buffer
    /\ inq' = Append(inq, [kind |-> "Event", val |-> "Tick", src |-> 1,
                           seq |-> prod[1].sent + 1, at |-> Sent + 1])
    /\ prod' = [prod EXCEPT ![1].sent = @ + 1]
    /\ UNCHANGED <<storage, fsm, buffer, template, req, req2, state, effects, last, cur, sender, log, events, outq, outRx,
                   delivered, pc, fed, pending, terminating, result, history,
                   effects0, trace>>

\* the log is empty, so the Hydrator is fed nothing
NextTicks ==
    \/ ProducerTick
    \/ ProducerDrop(1)
    \/ ConsumerRecv
    \/ ConsumerEnd
    \/ TaskStart
    \/ TaskInit
    \/ TaskNotifyOutput
    \/ TaskFlushDone
    \/ TaskRecv
    \/ TaskLog
    \/ TaskEvents
    \/ TaskReturn

SpecTicks == InitTicks /\ [][NextTicks]_vars

\* the outputs the task has notified to its output adapter
Notified == SelectSeq(trace, LAMBDA x : x[1] \in {"out", "lost"})

Asker == 2

InitReq ==
    /\ fsm = "KvStore"
    /\ template = TestTemplate
    /\ req = NoRequest
    /\ req2 = NoRequest
    /\ NoStorage
    /\ buffer = InputCap
    /\ state = DefaultState(fsm)
    /\ effects0 = DefaultEffects(fsm)
    /\ effects = effects0
    /\ last = NoStep
    /\ cur = NoInput
    /\ sender = "Some"
    /\ inq = <<>>
    /\ prod = [p \in Producers |-> [sent |-> 0, alive |-> TRUE]]
    /\ history = <<>>
    /\ log = <<>>
    /\ events = <<>>
    /\ outq = <<>>
    /\ outRx = "open"
    /\ delivered = <<>>
    /\ pc = "start"
    /\ fed = 0
    /\ pending = <<>>
    /\ terminating = FALSE
    /\ result = None
    /\ trace = <<>>

\* number of calls the Requester has made
Calls == Len(req.got) + (IF req.st = "idle" THEN 0 ELSE 1)

\* a notify that keeps the query when the channel is closed
RequesterCall_KeepsQuery(q) ==
    /\ prod[Asker].alive
    /\ req.st = "idle"
    /\ Calls < MaxQueries
    /\ \/ /\ ReceiverAlive
          /\ Len(inq) < buffer
          /\ inq' = Append(inq, [kind |-> "Command", val |-> q, src |-> Asker,
                                 seq |-> prod[Asker].sent + 1, at |-> Sent + 1])
          /\ prod' = [prod EXCEPT ![Asker].sent = @ + 1]
          /\ req' = [req EXCEPT !.st = "waiting", !.at = Sent + 1, !.q = q,
                                !.reply = NoReply]
       \/ /\ ~ReceiverAlive
          /\ req' = [req EXCEPT !.st = "waiting", !.at = 0, !.q = q, !.reply = NoReply]
          /\ UNCHANGED <<inq, prod>>
    /\ UNCHANGED <<storage, fsm, buffer, template, req2, state, effects, last, cur, sender, log, events,
                   outq, outRx, delivered, pc, fed, pending, terminating, result,
                   history, effects0, trace>>

\* Requester::dispatch up to its await of the reply: the query is notified
\* to the Sender, which waits for room in the channel; when the Receiver is
\* gone the error of send is discarded and the query is dropped with it, and
\* with the query the Sender of the oneshot channel
RequesterCall(q) ==
    /\ prod[Asker].alive
    /\ req.st = "idle"
    /\ Calls < MaxQueries
    /\ \/ /\ ReceiverAlive
          /\ Len(inq) < buffer
          /\ inq' = Append(inq, [kind |-> "Command", val |-> q, src |-> Asker,
                                 seq |-> prod[Asker].sent + 1, at |-> Sent + 1])
          /\ prod' = [prod EXCEPT ![Asker].sent = @ + 1]
          /\ req' = [req EXCEPT !.st = "waiting", !.at = Sent + 1, !.q = q,
                                !.reply = NoReply]
       \/ /\ ~ReceiverAlive
          /\ req' = [req EXCEPT !.st = "closed", !.at = 0, !.q = q, !.reply = NoReply]
          /\ UNCHANGED <<inq, prod>>
    /\ UNCHANGED <<storage, fsm, buffer, template, req2, state, effects, last, cur, sender, log, events,
                   outq, outRx, delivered, pc, fed, pending, terminating, result,
                   history, effects0, trace>>

\* Requester::dispatch, rx.await: the reply, or ChannelClosed when the
\* Sender of the oneshot channel was dropped
RequesterReturn ==
    /\ req.st \in {"replied", "closed"}
    /\ req' = [req EXCEPT !.st = "idle",
                          !.got = Append(@, [q |-> req.q, at |-> req.at,
                                             reply |-> req.reply,
                                             out |-> IF req.st = "replied"
                                                     THEN "Ok"
                                                     ELSE "ChannelClosed"])]
    /\ UNCHANGED <<storage, fsm, buffer, template, req2, state, effects, last, cur, sender, inq, prod,
                   log, events, outq, outRx, delivered, pc, fed, pending,
                   terminating, result, history, effects0, trace>>

\* the asker returns between two calls, dropping the Requester
RequesterDrop ==
    /\ req.st = "idle"
    /\ ProducerDrop(Asker)

\* the future of the task is dropped at one of its awaits: the Receiver of
\* the input channel goes, and with it the inputs queued, the Requester's
\* query among them
TaskDropped ==
    /\ pc # "done"
    /\ pc' = "done"
    /\ result' = "Dropped"
    /\ sender' = None
    /\ inq' = <<>>
    /\ req' = IF req.st = "waiting" THEN [req EXCEPT !.st = "closed"] ELSE req
    /\ req2' = IF req2.st = "waiting" THEN [req2 EXCEPT !.st = "closed"] ELSE req2
    /\ trace' = Append(trace, <<"dropped", StepNo>>)
    /\ UNCHANGED <<storage, fsm, buffer, template, state, effects, last, cur, prod, log, events,
                   outq, outRx, delivered, fed, pending, terminating, history,
                   effects0>>

\* the producer of the kv test sends its one keyed event for the root and
\* returns
RootProducerSend ==
    /\ prod[1].alive
    /\ ReceiverAlive
    /\ Len(inq) < buffer
    /\ \E a \in {"Tick", "Stop"} :
        inq' = Append(inq, [kind |-> "Event", val |-> Keyed(root, a), src |-> 1,
                            seq |-> prod[1].sent + 1, at |-> Sent + 1])
    /\ prod' = [prod EXCEPT ![1] = [sent |-> 1, alive |-> FALSE]]
    /\ UNCHANGED <<storage, fsm, buffer, template, req, req2, state, effects, last, cur, sender, log,
                   events, outq, outRx, delivered, pc, fed, pending, terminating,
                   result, history, effects0, trace>>

NextReq ==
    \/ \E q \in KvQueries : RequesterCall(q)
    \/ RequesterReturn
    \/ RequesterDrop
    \/ TaskDropped
    \/ RootProducerSend
    \/ ConsumerRecv
    \/ ConsumerEnd
    \/ TaskStart
    \/ TaskInit
    \/ TaskNotifyOutput
    \/ TaskFlushDone
    \/ TaskRecv
    \/ TaskLog
    \/ TaskEvents
    \/ TaskReturn

SpecReq == InitReq /\ [][NextReq]_vars

\* positions in the trace where input number n was stepped
SteppedAt(n) == {i \in DOMAIN trace : trace[i][1] = "step" /\ trace[i][2] = n}

\* the query of the Requester's call was the last input stepped and its
\* reply is not yet taken
JustReplied(kind) ==
    /\ req.st = "replied"
    /\ req.q.q = kind
    /\ StepNo = req.at
    /\ cur.at = req.at

\* the child at key k before the last step, a default child if there was none
ChildBefore(k) == IF k \in DOMAIN last.pre THEN last.pre[k] ELSE [count |-> 0]

\* C21: upsert reports Found exactly when the Path is present at the moment
\* the command is processed, NotFound otherwise; the event Keyed{path,
\* f(value there or None)} is produced and applied; after an upsert that
\* reported NotFound the next call's Get on the Path returns the new value
\* and the next call's upsert on the Path reports Found.
C21_UpsertReportsPresence ==
    /\ JustReplied("Upsert") =>
           LET p == req.q.path
               e == req.q.respond[Get(last.pre, p)]
           IN  /\ req.reply.is = (IF p \in DOMAIN last.pre THEN "Found" ELSE "NotFound")
               /\ Len(last.calls) >= 2
               /\ last.calls[1] = Call("for_command", last.pre)
               /\ last.calls[2] = Call("on_event", last.pre)
               /\ last.e \in {None, Keyed(p, e)}
               /\ IF Counter_terminating(e)
                  THEN p \notin DOMAIN state
                  ELSE /\ p \in DOMAIN state
                       /\ state[p] = Counter_on_event(ChildBefore(p), e).s
    /\ \A i \in 1..(Len(req.got) - 1) :
           LET g == req.got[i]
               h == req.got[i + 1]
           IN  (/\ g.out = "Ok" /\ h.out = "Ok"
                /\ g.q.q = "Upsert"
                /\ g.reply.is = "NotFound"
                /\ ~Counter_terminating(g.q.respond["None"])
                /\ h.at = g.at + 1
                /\ h.q.q \in {"Get", "Upsert"}
                /\ h.q.path = g.q.path) =>
                   IF h.q.q = "Get"
                   THEN /\ h.reply.is = "Some"
                        /\ h.reply.v = Counter_on_event([count |-> 0],
                                                        g.q.respond["None"]).s
                   ELSE h.reply.is = "Found"

\* an upsert on the root of the empty store reported NotFound, the Get that
\* followed returned the child counted once, and a second upsert on the
\* root reported Found
C21_Witness ==
    /\ Len(req.got) = 3
    /\ req.got[1].q.q = "Upsert" /\ req.got[1].reply.is = "NotFound"
    /\ req.got[2].q.q = "Get" /\ req.got[2].reply.is = "Some"
    /\ req.got[2].reply.v = [count |-> 1]
    /\ req.got[3].q.q = "Upsert" /\ req.got[3].reply.is = "Found"
    /\ req.got[3].q.path = root

\* C22: Insert(f) calls f once, over all the entries of the map as it is;
\* the event produced is the keyed event f returned, the Requester's insert
\* returns the Path of that event, and the event is applied to the child at
\* that Path, a new one if there was none.
C22_InsertProducesAndApplies ==
    JustReplied("Insert") =>
        LET e == req.q.respond
            k == KeyOf(e)
        IN  /\ req.reply.is = "Path"
            /\ req.reply.v = k
            /\ Cardinality({i \in DOMAIN last.calls :
                                last.calls[i].fn = "for_command"}) = 1
            /\ last.calls[1] = Call("for_command", last.pre)
            /\ KvStore_for_command(last.pre, req.q, KeyedDefault).seen
                   = Entries(last.pre, Ordered(DOMAIN last.pre))
            /\ Len(last.calls) >= 2
            /\ last.calls[2] = Call("on_event", last.pre)
            /\ last.e = e
            /\ k \in DOMAIN state
            /\ state[k] = Counter_on_event(ChildBefore(k), ItemOf(e)).s
            /\ OthersKept(k)

\* two inserts returned the Path /1/a: the first made the child there, the
\* second applied its Tick to the child the first had made
C22_Witness ==
    /\ JustReplied("Insert")
    /\ Len(req.got) = 1
    /\ req.got[1].q.q = "Insert"
    /\ req.got[1].reply.v = <<Number(1), Name(<<97>>)>>
    /\ state[<<Number(1), Name(<<97>>)>>] = [count |-> 2]

\* C23: a call of the Requester has one outcome: the reply, sent once when
\* its query is stepped, or ChannelClosed when the query was dropped without
\* being stepped, the input channel closed or the queue dropped; and no call
\* is left waiting once the task has ended.
C23_OneOutcomePerCall ==
    /\ req.st = "waiting" =>
           /\ pc # "done"
           /\ Cardinality({i \in DOMAIN inq : inq[i].at = req.at}) = 1
           /\ SteppedAt(req.at) = {}
           /\ req.reply = NoReply
    /\ req.st = "replied" =>
           /\ Cardinality(SteppedAt(req.at)) = 1
           /\ req.reply # NoReply
    /\ req.st = "closed" =>
           /\ pc = "done"
           /\ SteppedAt(req.at) = {}
           /\ req.reply = NoReply
    /\ \A i \in DOMAIN req.got :
           LET g == req.got[i]
           IN  /\ g.out \in {"Ok", "ChannelClosed"}
               /\ g.out = "Ok" <=> g.reply # NoReply
               /\ g.out = "Ok" <=> Cardinality(SteppedAt(g.at)) = 1
               /\ g.out = "ChannelClosed" <=> SteppedAt(g.at) = {}
               /\ \A j \in DOMAIN req.got : (j # i /\ g.at > 0) => req.got[j].at # g.at
    /\ Calls = prod[Asker].sent
               + Cardinality({i \in DOMAIN req.got : req.got[i].at = 0})
               + (IF req.st = "closed" /\ req.at = 0 THEN 1 ELSE 0)

\* one call got its reply, the query of the next was dropped with the queue
\* when the task ended, and the one after found the channel closed
C23_Witness ==
    /\ Len(req.got) = 3
    /\ req.got[1].out = "Ok"
    /\ req.got[2].out = "ChannelClosed" /\ req.got[2].at = 2
    /\ req.got[3].out = "ChannelClosed" /\ req.got[3].at = 0

(***************************************************************************)
(* SpecWiring: a Counter machine is built from machine_with_effects, whose *)
(* log, output and events are Placeholders, by calls of with_event_log,    *)
(* with_output, merge_output and merge_event_log, and then run.  Every      *)
(* adapter connected is a sink with a number of its own: for the outputs   *)
(* the Sender of a channel of capacity OutCap whose consumer receives, for *)
(* the events a Vec, plain or behind a FilterMap.  In this specification   *)
(* outq, delivered and events hold one sequence for each sink.             *)
(***************************************************************************)
SinkIds == 1..MaxSinks

BuilderOps == {"with_output", "merge_output", "merge_event_log"}

\* the calls that connected a sink, in order: <<op, sink, func>>
Built == SelectSeq(trace, LAMBDA x : x[1] \in BuilderOps)

InitWiring ==
    /\ fsm = "Counter"
    /\ template = [log |-> Placeholder, output |-> Placeholder, events |-> Placeholder]
    /\ req = NoRequest
    /\ req2 = NoRequest
    /\ NoStorage
    /\ buffer = InputCap
    /\ state = DefaultState(fsm)
    /\ effects0 \in InitialEffects
    /\ effects = effects0
    /\ last = NoStep
    /\ cur = NoInput
    /\ sender = "Some"
    /\ inq = <<>>
    /\ prod = [p \in Producers |-> [sent |-> 0, alive |-> p = 1]]
    /\ history = <<"Tick">>
    /\ log = [i \in 1..Len(history) |-> Logged(history[i], 0)]
    /\ events = [k \in SinkIds |-> <<>>]
    /\ outq = [k \in SinkIds |-> <<>>]
    /\ outRx = "open"
    /\ delivered = [k \in SinkIds |-> <<>>]
    /\ pc = "build"
    /\ fed = 0
    /\ pending = <<>>
    /\ terminating = FALSE
    /\ result = None
    /\ trace = <<>>

\* a builder call that leaves the channels and the machine as they are
Builds ==
    UNCHANGED <<storage, fsm, buffer, req, req2, state, effects, last, cur, sender, inq, prod, log,
                events, outq, outRx, delivered, pc, fed, pending, terminating,
                result, history, effects0>>

\* Machine::with_event_log: the Vec of logged events becomes Template.log
with_event_log ==
    /\ pc = "build"
    /\ trace = <<>>
    /\ template' = [template EXCEPT !.log = Sink(1)]
    /\ trace' = Append(trace, <<"with_event_log", 0, "all">>)
    /\ Builds

\* Machine::with_output: the Sender of a new channel replaces Template.output
with_output ==
    /\ pc = "build"
    /\ Len(Built) < MaxSinks
    /\ template' = [template EXCEPT !.output = Sink(Len(Built) + 1)]
    /\ trace' = Append(trace, <<"with_output", Len(Built) + 1, "all">>)
    /\ Builds

\* a merge_output that replaces the output adapter
merge_output_Replaces ==
    /\ pc = "build"
    /\ Len(Built) < MaxSinks
    /\ template' = [template EXCEPT !.output = Sink(Len(Built) + 1)]
    /\ trace' = Append(trace, <<"merge_output", Len(Built) + 1, "all">>)
    /\ Builds

\* Machine::merge_output: the Sender of a new channel is merged with
\* Template.output
merge_output ==
    /\ pc = "build"
    /\ Len(Built) < MaxSinks
    /\ template' = [template EXCEPT !.output = merge(@, Sink(Len(Built) + 1))]
    /\ trace' = Append(trace, <<"merge_output", Len(Built) + 1, "all">>)
    /\ Builds

\* Machine::merge_event_log: a new Vec, as it is or with_filter_map, is
\* merged with Template.events
merge_event_log(func) ==
    /\ pc = "build"
    /\ Len(Built) < MaxSinks
    /\ LET k == Len(Built) + 1
           x == IF func = "all" THEN Sink(k) ELSE FilterMap(func, Sink(k))
       IN  /\ template' = [template EXCEPT !.events = merge(@, x)]
           /\ trace' = Append(trace, <<"merge_event_log", k, func>>)
    /\ Builds

\* the machine is built: its task is spawned
Spawn ==
    /\ pc = "build"
    /\ pc' = "start"
    /\ UNCHANGED <<storage, fsm, buffer, template, req, req2, state, effects, last, cur, sender, inq,
                   prod, log, events, outq, outRx, delivered, fed, pending,
                   terminating, result, history, effects0, trace>>

\* task: output.notify(item) gives the item to the next sink of the output
\* adapter that is to take it, waiting for room in its channel
WiredNotifyOutput ==
    /\ pc = "flush"
    /\ pending # <<>>
    /\ LET d == Head(pending)
       IN  /\ Len(outq[d.sink]) < OutCap
           /\ outq' = [outq EXCEPT ![d.sink] = Append(@, d)]
           /\ trace' = Append(trace, <<"out", d.n, d.sink>>)
    /\ pending' = Tail(pending)
    /\ UNCHANGED <<storage, fsm, buffer, template, req, req2, state, effects, last, cur, sender, inq,
                   prod, log, events, outRx, delivered, pc, fed, terminating, result,
                   history, effects0>>

\* Receiver::recv of the consumer of sink k takes the oldest output
WiredConsumerRecv(k) ==
    /\ outq[k] # <<>>
    /\ delivered' = [delivered EXCEPT ![k] = Append(@, Head(outq[k]))]
    /\ outq' = [outq EXCEPT ![k] = Tail(@)]
    /\ UNCHANGED <<storage, fsm, buffer, template, req, req2, state, effects, last, cur, sender, inq,
                   prod, log, events, outRx, pc, fed, pending, terminating, result,
                   history, effects0, trace>>

RECURSIVE PushAll(_, _, _)

\* the Vecs after each took what it was notified with, in order
PushAll(vecs, ds, n) ==
    IF ds = <<>>
    THEN vecs
    ELSE PushAll([vecs EXCEPT ![Head(ds).sink] = Append(@, Logged(Head(ds).item, n))],
                 Tail(ds), n)

\* task: events.notify(e) pushes the event on the Vecs of the events
\* adapter, then the effector is drained
WiredEvents ==
    /\ pc = "events"
    /\ events' = PushAll(events, Deliveries(template.events, last.e), StepNo)
    /\ pending' = Drained(effects, StepNo)
    /\ effects' = drain_all(effects).se
    /\ pc' = "flush"
    /\ trace' = Append(trace, <<"events", StepNo>>)
    /\ UNCHANGED <<storage, fsm, buffer, template, req, req2, state, last, cur, sender, inq, prod, log,
                   outq, outRx, delivered, fed, terminating, result, history,
                   effects0>>

NextWiring ==
    \/ with_event_log
    \/ with_output
    \/ merge_output
    \/ \E func \in {"all", "ticks"} : merge_event_log(func)
    \/ Spawn
    \/ ProducerSend(1)
    \/ ProducerDrop(1)
    \/ \E k \in SinkIds : WiredConsumerRecv(k)
    \/ TaskStart
    \/ TaskFeed
    \/ TaskInit
    \/ WiredNotifyOutput
    \/ TaskFlushDone
    \/ TaskRecv
    \/ TaskLog
    \/ WiredEvents
    \/ TaskReturn

SpecWiring == InitWiring /\ [][NextWiring]_vars

(***************************************************************************)
(* Claims about the adapters connected to a machine.                       *)
(***************************************************************************)
RECURSIVE SinksOf(_)

\* the sinks an adapter notifies
SinksOf(ad) ==
    CASE ad.a = "Placeholder" -> {}
      [] ad.a = "Sink" -> {ad.id}
      [] ad.a = "Merge" -> SinksOf(ad.first) \cup SinksOf(ad.next)
      [] OTHER -> SinksOf(ad.inner)

RECURSIVE MergeNodes(_)

\* the Merges an adapter is made of
MergeNodes(ad) ==
    CASE ad.a = "Merge" -> {ad} \cup MergeNodes(ad.first) \cup MergeNodes(ad.next)
      [] ad.a = "FilterMap" -> MergeNodes(ad.inner)
      [] OTHER -> {}

\* the input numbers of a sequence of outputs or events
Ns(seq) == [i \in DOMAIN seq |-> seq[i].n]

\* what sink k has taken from the output adapter, and what it is still to take
Taken(k) == delivered[k] \o outq[k]

PendingFor(k) == SelectSeq(pending, LAMBDA d : d.sink = k)

\* the steps that returned an event the task has notified to Template.events
NotifiedSteps ==
    SelectSeq(trace, LAMBDA x : x[1] = "step" /\ x[5] # None /\ Did("events", x[2]))

RECURSIVE TocksOf(_, _)

\* the input numbers of the Tocks a Counter in state s pushes for the events
\* of the steps given
TocksOf(s, steps) ==
    IF steps = <<>>
    THEN <<>>
    ELSE LET e == Head(steps)[5]
             t == Counter_on_event(s, e).s
             out == Counter_on_change(t, e, <<>>)
         IN  [i \in 1..Len(out) |-> Head(steps)[2]] \o TocksOf(t, Tail(steps))

\* the input numbers of the outputs the task has drained from the effector:
\* what the effector held at the start, and the Tocks of the events since
DrainedNs ==
    IF At("init") = {}
    THEN <<>>
    ELSE [i \in 1..Len(effects0) |-> 0]
             \o TocksOf(trace[CHOOSE i \in At("init") : TRUE][2], NotifiedSteps)

\* the sinks connected as output by the builder calls, those that a later
\* with_output replaced, and those that are still connected
BuiltOut == {i \in DOMAIN Built : Built[i][1] \in {"with_output", "merge_output"}}

LastWith ==
    LET w == {i \in DOMAIN Built : Built[i][1] = "with_output"}
    IN  IF w = {} THEN 0 ELSE CHOOSE i \in w : \A j \in w : j <= i

Replaced == {Built[i][2] : i \in {j \in BuiltOut : j < LastWith}}

OutSinks == {Built[i][2] : i \in {j \in BuiltOut : j >= LastWith}}

\* position in the trace where the output of input n was given to sink k
OutAt(n, k) ==
    {i \in DOMAIN trace : trace[i][1] = "out" /\ trace[i][2] = n /\ trace[i][3] = k}

\* C25: for every item notified to Merge(A, B) the sinks of A take it
\* before a sink of B does, so that B has taken no item A has not; both take
\* every item, in the same order.
C25_MergeFirstThenNext ==
    \A m \in MergeNodes(template.output) :
        \A a \in SinksOf(m.first), b \in SinksOf(m.next) :
            /\ \A n \in 0..MaxInputs :
                   \A j \in OutAt(n, b) : \E i \in OutAt(n, a) : i < j
            /\ Len(Taken(b)) <= Len(Taken(a))
            /\ Ns(Taken(b)) = SubSeq(Ns(Taken(a)), 1, Len(Taken(b)))
            /\ Ns(Taken(a) \o PendingFor(a)) = DrainedNs
            /\ Ns(Taken(b) \o PendingFor(b)) = DrainedNs

\* two Senders were merged and the consumers of both have received the
\* two outputs of the run
C25_Witness ==
    /\ pc = "done"
    /\ template.output = Merge(Sink(1), Sink(2))
    /\ Len(delivered[1]) = 2
    /\ Len(delivered[2]) = 2

\* C26: the adapter with_output sets replaces the output adapter, so that
\* an adapter connected before it is given no output; merge_output adds an
\* adapter, so that every adapter connected since the last with_output is
\* given every output, in the order the task drained them.
C26_WithReplacesMergeAdds ==
    /\ \A k \in Replaced :
           /\ Taken(k) = <<>>
           /\ PendingFor(k) = <<>>
           /\ \A n \in 0..MaxInputs : OutAt(n, k) = {}
    /\ \A k \in OutSinks :
           /\ Ns(Taken(k) \o PendingFor(k)) = DrainedNs
           /\ \A i \in DOMAIN Taken(k) : Taken(k)[i].item = Tock
    /\ SinksOf(template.output) = OutSinks

\* a Sender connected and then replaced by with_output got nothing, while
\* the one that replaced it and one merged after it received both outputs
C26_Witness ==
    /\ pc = "done"
    /\ Replaced = {1}
    /\ OutSinks = {2, 3}
    /\ Len(delivered[2]) = 2
    /\ Len(delivered[3]) = 2

\* the state the effector was initialised with
InitState == trace[CHOOSE i \in At("init") : TRUE][2]

\* C27: a Placeholder takes what it is notified with and discards it, the
\* task going on to return Ok; as the log it feeds nothing, so that the
\* state starts as the default state; and an adapter merged with the
\* Placeholder is the adapter itself, taking every item once.
C27_PlaceholderDiscardsAndIsIdentity ==
    /\ result \in {None, "Ok"}
    /\ BuiltOut = {} =>
           /\ pending = <<>>
           /\ \A k \in SinkIds : Taken(k) = <<>>
    /\ ~Did("with_event_log", 0) =>
           /\ fed = 0
           /\ ~Did("feed", 1)
           /\ log = [i \in 1..Len(history) |-> Logged(history[i], 0)]
           /\ At("init") # {} => InitState = DefaultState(fsm)
    /\ (\A i \in DOMAIN Built : Built[i][1] # "merge_event_log") =>
           \A k \in SinkIds : events[k] = <<>>
    /\ \A k \in SinkIds :
           (BuiltOut # {} /\ \A i \in BuiltOut : Built[i] = <<"merge_output", k, "all">>) =>
               /\ template.output = Sink(k)
               /\ Ns(Taken(k) \o PendingFor(k)) = DrainedNs

\* with the Placeholder as its log and a Sender merged with the Placeholder
\* output, the machine has stepped its two inputs from the default state and
\* returned, and the consumer has received both outputs
C27_Witness ==
    /\ pc = "done"
    /\ result = "Ok"
    /\ ~Did("with_event_log", 0)
    /\ Len(Built) = 1
    /\ Built[1][1] = "merge_output"
    /\ Len(delivered[1]) = 2
    /\ state = [count |-> 0]

\* the events the task has notified to Template.events
NotifiedEvents == [i \in DOMAIN NotifiedSteps |->
                      Logged(NotifiedSteps[i][5], NotifiedSteps[i][2])]

RECURSIVE FilterMapped(_, _)

\* the results of the function for the events it accepts
FilterMapped(func, es) ==
    IF es = <<>>
    THEN <<>>
    ELSE (IF Head(es).e = "Tick" \/ func = "all"
          THEN <<Logged(IF func = "all" THEN Head(es).e ELSE "Ticked", Head(es).n)>>
          ELSE <<>>) \o FilterMapped(func, Tail(es))

\* C28: the Vec behind a FilterMap has the results of the function for the
\* events the function accepts, in the order the events were notified, and
\* nothing for an event it rejects; the task does not fail.
C28_FilterMapPassesAccepted ==
    /\ result \in {None, "Ok"}
    /\ \A i \in DOMAIN Built :
           Built[i][1] = "merge_event_log" =>
               events[Built[i][2]] = FilterMapped(Built[i][3], NotifiedEvents)

\* the function rejected the Reset and accepted the Tick that came after
C28_Witness ==
    /\ pc = "done"
    /\ Len(Built) = 1
    /\ Built[1] = <<"merge_event_log", 1, "ticks">>
    /\ Ns(NotifiedEvents) = <<1, 2>>
    /\ NotifiedEvents[1].e = "Reset"
    /\ events[1] = <<Logged("Ticked", 2)>>

(***************************************************************************)
(* The events notified to the log and to the events adapter of a KvStore   *)
(* machine.                                                                *)
(***************************************************************************)
\* the task is done with the input it received last: what step returned
\* was notified and the loop is at the flush of the outputs or beyond
StepDone ==
    /\ StepNo >= 1
    /\ cur.at = StepNo
    /\ pc \in {"flush", "recv", "done"}

\* the event that input was, or the event for_command gave for it
InputEvent ==
    IF cur.kind = "Command"
    THEN KvStore_for_command(last.pre, cur.val, KeyedDefault).e
    ELSE cur.val

\* positions of the event e of input n in the log and in the events Vec
InLog(e, n) == {i \in DOMAIN log : log[i] = Logged(e, n)}

InEvents(e, n) == {i \in DOMAIN events : events[i] = Logged(e, n)}

StepsWith(e) == Cardinality({i \in DOMAIN trace : trace[i][1] = "step" /\ trace[i][5] = e})

\* C38: Start or Started in Idle yields Started and moves to Running; Stop
\* or Stopped in Running yields Stopped and moves to Idle; every other input
\* yields no event and leaves the state; the entry handler of Running has
\* run once for each transition into Running and the other handlers once
\* for each event returned, so that an ignored input performed no effect.
C38_StartStop ==
    (fsm = "MyFsm" /\ StepNo >= 1) =>
        /\ IF last.pre = "Idle" /\ cur.val \in {"Start", "Started"}
           THEN /\ last.e = "Started"
                /\ state = "Running"
                /\ Len(CallsOf("on_entry")) = 1
           ELSE IF last.pre = "Running" /\ cur.val \in {"Stop", "Stopped"}
           THEN /\ last.e = "Stopped"
                /\ state = "Idle"
                /\ Len(CallsOf("on_entry")) = 1
           ELSE /\ last.e = None
                /\ state = last.pre
                /\ CallsOf("on_entry") = <<>>
                /\ CallsOf("on_change") = <<>>
        /\ effects.transitioned_stopped_to_started = StepsWith("Started")
        /\ effects.started = StepsWith("Started")
        /\ effects.stopped = StepsWith("Stopped")

\* the machine went into Running twice and ignored one input on the way
C38_Witness ==
    /\ fsm = "MyFsm"
    /\ StepNo = 4
    /\ state = "Running"
    /\ effects.transitioned_stopped_to_started = 2
    /\ effects.stopped = 1
    /\ StepsWith(None) = 1

(***************************************************************************)
(* The outputs of a KvStore machine.                                       *)
(***************************************************************************)
\* the outputs drained while input number n was processed, wherever they are
OutputsOf(n) ==
    SelectSeq(delivered \o outq \o pending, LAMBDA d : d.n = n)

\* the event the step of input number n returned
EventOf(n) == trace[CHOOSE i \in SteppedAt(n) : TRUE][5]

C35_Removed ==
    /\ StepDone
    /\ last.e # None
    /\ Counter_terminating(ItemOf(last.e))
    /\ KeyOf(last.e) \in DOMAIN last.pre
    /\ OutputsOf(StepNo) = <<>>

(***************************************************************************)
(* SpecKvTicks: the kv tests.  A KvStore<Counter> machine with an output   *)
(* channel and the Placeholders for log and events; in basic_kv_test a     *)
(* producer sends 99 Ticks keyed with the root and returns, in             *)
(* empty_kv_test there is no producer.  The asker makes a call of its      *)
(* Requester, get on the root or get_all, at any time and returns.         *)
(***************************************************************************)
\* the Ticks the producer of basic_kv_test sends
KvTicks == 99

AskerQueries == {[q |-> "Get", path |-> root], [q |-> "GetAll"]}

InitKvTicks ==
    /\ fsm = "KvStore"
    /\ template = [log |-> Placeholder, output |-> Sink(1), events |-> Placeholder]
    /\ req = NoRequest
    /\ req2 = NoRequest
    /\ NoStorage
    /\ buffer = 1
    /\ state = DefaultState(fsm)
    /\ effects0 = DefaultEffects(fsm)
    /\ effects = effects0
    /\ last = NoStep
    /\ cur = NoInput
    /\ sender = "Some"
    /\ inq = <<>>
    /\ \E basic \in BOOLEAN :
           prod = [p \in Producers |-> [sent |-> 0, alive |-> p = Asker \/ basic]]
    /\ history = <<>>
    /\ log = <<>>
    /\ events = <<>>
    /\ outq = <<>>
    /\ outRx = "open"
    /\ delivered = <<>>
    /\ pc = "start"
    /\ fed = 0
    /\ pending = <<>>
    /\ terminating = FALSE
    /\ result = None
    /\ trace = <<>>

\* the producer sends the next Tick for the root, waiting for room
KvProducerTick ==
    /\ prod[1].alive
    /\ prod[1].sent < KvTicks
    /\ Len(inq) < buffer
    /\ inq' = Append(inq, [kind |-> "Event", val |-> Keyed(root, "Tick"), src |-> 1,
                           seq |-> prod[1].sent + 1, at |-> Sent + 1])
    /\ prod' = [prod EXCEPT ![1].sent = @ + 1]
    /\ UNCHANGED <<storage, fsm, buffer, template, req, req2, state, effects, last, cur, sender, log,
                   events, outq, outRx, delivered, pc, fed, pending, terminating,
                   result, history, effects0, trace>>

\* the producer has sent its Ticks and returns
KvProducerDone ==
    /\ prod[1].sent = KvTicks
    /\ ProducerDrop(1)

\* the asker makes its call
AskerCall ==
    /\ req.got = <<>>
    /\ \E q \in AskerQueries : RequesterCall(q)

\* the asker has its answer and returns, dropping the Requester
AskerReturn ==
    /\ req.st \in {"replied", "closed"}
    /\ req' = [req EXCEPT !.st = "idle",
                          !.got = Append(@, [q |-> req.q, at |-> req.at,
                                             reply |-> req.reply,
                                             out |-> IF req.st = "replied"
                                                     THEN "Ok"
                                                     ELSE "ChannelClosed"])]
    /\ prod' = [prod EXCEPT ![Asker].alive = FALSE]
    /\ UNCHANGED <<storage, fsm, buffer, template, req2, state, effects, last, cur, sender, inq,
                   log, events, outq, outRx, delivered, pc, fed, pending,
                   terminating, result, history, effects0, trace>>

NextKvTicks ==
    \/ KvProducerTick
    \/ KvProducerDone
    \/ AskerCall
    \/ AskerReturn
    \/ ConsumerRecv
    \/ ConsumerEnd
    \/ TaskStart
    \/ TaskInit
    \/ TaskNotifyOutput
    \/ TaskFlushDone
    \/ TaskRecv
    \/ TaskLog
    \/ TaskEvents
    \/ TaskReturn

SpecKvTicks == InitKvTicks /\ [][NextKvTicks]_vars

\* the event of the producer
RootTick == Keyed(root, "Tick")

\* the fold of the asker's get_all: the sum of the counts of the entries
RECURSIVE SumCounts(_)
SumCounts(es) ==
    IF es = <<>> THEN 0 ELSE Head(es).value.count + SumCounts(Tail(es))

\* the outputs made so far, wherever they are
AllOutputs == delivered \o outq \o pending

\* C31: 99 Ticks keyed with the root give 9 outputs, each keyed with the
\* root, and one entry, of count 99; a get_all made after them sums to 99;
\* with no events there are no outputs and a get on the root gives none.
\* At every moment the store has the root entry alone, counting the Ticks
\* stepped, and a reply reflects the Ticks queued before the query.
C31_BasicAndEmptyKv ==
    LET ticks == StepsWith(RootTick) IN
    /\ DOMAIN state = IF ticks = 0 THEN {} ELSE {root}
    /\ ticks > 0 => state[root] = [count |-> ticks]
    /\ \A i \in DOMAIN AllOutputs :
           AllOutputs[i].item = [key |-> root, item |-> Tock]
    /\ Len(AllOutputs) <= ticks \div TockEvery
    /\ outRx = "ended" =>
           /\ prod[1].sent \in {0, KvTicks}
           /\ ticks = prod[1].sent
           /\ Len(delivered) = IF prod[1].sent = KvTicks THEN 9 ELSE 0
           /\ prod[1].sent = KvTicks => state[root].count = 99
    /\ \A i \in DOMAIN req.got :
           LET g == req.got[i] IN
           /\ g.out = "Ok"
           /\ g.q.q = "GetAll" =>
                  /\ g.reply.is = "Many"
                  /\ SumCounts(g.reply.v) = g.at - 1
                  /\ g.at = KvTicks + 1 => SumCounts(g.reply.v) = 99
           /\ g.q.q = "Get" =>
                  g.reply = IF g.at = 1
                            THEN [is |-> "None"]
                            ELSE [is |-> "Some", v |-> [count |-> g.at - 1]]

\* basic_kv_test has ended: the consumer saw 9 outputs and the end of the
\* stream, and the asker's get_all, queued after the 99 Ticks, summed to 99
C31_Witness ==
    /\ outRx = "ended"
    /\ prod[1].sent = KvTicks
    /\ Len(delivered) = 9
    /\ state[root].count = 99
    /\ req.got # <<>>
    /\ req.got[1].q.q = "GetAll"
    /\ req.got[1].at = KvTicks + 1
    /\ SumCounts(req.got[1].reply.v) = 99

\* empty_kv_test has ended: no output, and the get on the root gave none
C31_Empty ==
    /\ outRx = "ended"
    /\ prod[1].sent = 0
    /\ delivered = <<>>
    /\ req.got # <<>>
    /\ req.got[1].q = [q |-> "Get", path |-> root]
    /\ req.got[1].reply = [is |-> "None"]

\* the queries that only read the store
ReadQueries == {"Get", "GetTree", "GetRange", "GetAll"}

\* the calls of the Requester whose query was input number k
AskedAt(k) == {i \in DOMAIN req.got : req.got[i].at = k}

\* input number k of the queue: a query of the Requester, or else the
\* producer's event for the root, which is Stop when the step returned no
\* event, for a Tick is never ignored
InputAt(k) ==
    IF AskedAt(k) # {}
    THEN [kind |-> "Command", val |-> req.got[CHOOSE i \in AskedAt(k) : TRUE].q]
    ELSE [kind |-> "Event",
          val |-> Keyed(root, IF EventOf(k) = None THEN "Stop" ELSE ItemOf(EventOf(k)))]

\* the store made by stepping exactly the first k inputs of the queue
RECURSIVE StoreAfter(_)
StoreAfter(k) ==
    IF k = 0
    THEN DefaultState("KvStore")
    ELSE step("KvStore", StoreAfter(k - 1), InputAt(k), DefaultEffects("KvStore")).s

\* the calls of the Requester that were answered, the one not yet taken too
Answered ==
    SelectSeq(req.got, LAMBDA g : g.out = "Ok")
        \o (IF req.st = "replied"
            THEN <<[q |-> req.q, at |-> req.at, reply |-> req.reply, out |-> "Ok"]>>
            ELSE <<>>)

\* C40: the reply to a get, get_tree, get_range or get_all is what the
\* query finds in the store made of exactly the inputs that were queued
\* before it: those are reflected, the ones queued after it are not.
C40_ReplyFromPrecedingInputs ==
    \A i \in DOMAIN Answered :
        LET g == Answered[i] IN
        g.q.q \in ReadQueries =>
            g.reply = Requester_reply(StoreAfter(g.at - 1), g.q)

\* a get on the root queued first and answered none although the
\* producer's Tick for the root was queued right behind it, and a get_all
\* queued after that Tick which found the root entry
C40_Witness ==
    /\ Len(req.got) = 2
    /\ req.got[1].q = [q |-> "Get", path |-> root]
    /\ req.got[1].at = 1
    /\ req.got[1].reply = [is |-> "None"]
    /\ req.got[2].q = [q |-> "GetAll"]
    /\ req.got[2].at = 3
    /\ req.got[2].reply = [is |-> "Many",
                           v |-> <<[key |-> root, value |-> [count |-> 1]]>>]

(***************************************************************************)
(* SpecTwoReq: two tasks, each with a Requester on its own clone of the    *)
(* input Sender, call upsert and insert on one KvStore machine at the same *)
(* time.                                                                   *)
(***************************************************************************)
\* calls each of the two Requesters makes at most
CallsEach == 2

\* the task that holds the second Requester
Peer == 1

\* an upsert on the root whose event creates the entry when there is none,
\* and an insert whose function chooses a Path not in the map it reads
WriteQueries ==
    {[q |-> "Upsert", path |-> root, respond |-> [Some |-> "Reset", None |-> "Tick"]],
     [q |-> "Insert", respond |-> FirstAbsent]}

\* number of calls the second Requester has made
PeerCalls == Len(req2.got) + (IF req2.st = "idle" THEN 0 ELSE 1)

\* the first Requester calls upsert or insert
WriterCall ==
    /\ Calls < CallsEach
    /\ \E q \in WriteQueries : RequesterCall(q)

\* Requester::dispatch of the second Requester
PeerCall ==
    /\ prod[Peer].alive
    /\ req2.st = "idle"
    /\ PeerCalls < CallsEach
    /\ \E q \in WriteQueries :
        \/ /\ ReceiverAlive
           /\ Len(inq) < buffer
           /\ inq' = Append(inq, [kind |-> "Command", val |-> q, src |-> Peer,
                                  seq |-> prod[Peer].sent + 1, at |-> Sent + 1])
           /\ prod' = [prod EXCEPT ![Peer].sent = @ + 1]
           /\ req2' = [req2 EXCEPT !.st = "waiting", !.at = Sent + 1, !.q = q,
                                   !.reply = NoReply]
        \/ /\ ~ReceiverAlive
           /\ req2' = [req2 EXCEPT !.st = "closed", !.at = 0, !.q = q,
                                   !.reply = NoReply]
           /\ UNCHANGED <<inq, prod>>
    /\ UNCHANGED <<storage, fsm, buffer, template, req, state, effects, last, cur, sender, log,
                   events, outq, outRx, delivered, pc, fed, pending, terminating,
                   result, history, effects0, trace>>

\* the call of the second Requester returns what the oneshot channel gave
PeerReturn ==
    /\ req2.st \in {"replied", "closed"}
    /\ req2' = [req2 EXCEPT !.st = "idle",
                            !.got = Append(@, [q |-> req2.q, at |-> req2.at,
                                               reply |-> req2.reply,
                                               out |-> IF req2.st = "replied"
                                                       THEN "Ok"
                                                       ELSE "ChannelClosed"])]
    /\ UNCHANGED <<storage, fsm, buffer, template, req, state, effects, last, cur, sender, inq,
                   prod, log, events, outq, outRx, delivered, pc, fed, pending,
                   terminating, result, history, effects0, trace>>

\* the task of the second Requester returns between two calls
PeerDrop ==
    /\ req2.st = "idle"
    /\ ProducerDrop(Peer)

NextTwoReq ==
    \/ WriterCall
    \/ RequesterReturn
    \/ RequesterDrop
    \/ PeerCall
    \/ PeerReturn
    \/ PeerDrop
    \/ ConsumerRecv
    \/ ConsumerEnd
    \/ TaskStart
    \/ TaskInit
    \/ TaskNotifyOutput
    \/ TaskFlushDone
    \/ TaskRecv
    \/ TaskLog
    \/ TaskEvents
    \/ TaskReturn

SpecTwoReq == InitReq /\ [][NextTwoReq]_vars

\* the calls of a Requester rq that were answered, the one not yet taken too
AnsweredOf(rq) ==
    SelectSeq(rq.got, LAMBDA g : g.out = "Ok")
        \o (IF rq.st = "replied"
            THEN <<[q |-> rq.q, at |-> rq.at, reply |-> rq.reply, out |-> "Ok"]>>
            ELSE <<>>)

\* the answered calls of both Requesters
BothAnswered == AnsweredOf(req) \o AnsweredOf(req2)

\* the answered calls of the given kind, by their place in BothAnswered
AnsweredKind(kind) == {i \in DOMAIN BothAnswered : BothAnswered[i].q.q = kind}

\* C39: in the step of an upsert or insert, for_command reads the map and
\* on_event applies the event to that same map, with no input between; so
\* of the concurrent upserts on the root, absent at first, exactly one
\* reports NotFound (none if an insert took the root first), and no two
\* inserts that choose an absent key are given the same Path.
C39_UpsertInsertAtomic ==
    /\ (StepNo >= 1 /\ cur.kind = "Command" /\ cur.val.q \in {"Upsert", "Insert"}) =>
           /\ Len(last.calls) >= 2
           /\ last.calls[1] = Call("for_command", last.pre)
           /\ last.calls[2] = Call("on_event", last.pre)
           /\ state = KvStore_on_event(last.pre,
                          KvStore_for_command(last.pre, cur.val, KeyedDefault).e).s
    /\ LET ups == AnsweredKind("Upsert")
           ins == AnsweredKind("Insert")
           notFound == {i \in ups : BothAnswered[i].reply.is = "NotFound"}
           tookRoot == \E i \in ins : BothAnswered[i].reply.v = root
       IN  /\ \A i \in ups : BothAnswered[i].reply.is \in {"Found", "NotFound"}
           /\ Cardinality(notFound) = IF ups = {} \/ tookRoot THEN 0 ELSE 1
           /\ \A i, j \in ins :
                  i # j => BothAnswered[i].reply.v # BothAnswered[j].reply.v

\* the upserts of the two Requesters on the root were the first two inputs,
\* one was told NotFound and the other Found; and now both Requesters have
\* an insert answered and not yet taken, each with a Path of its own
C39_Witness ==
    /\ Len(req.got) = 1
    /\ Len(req2.got) = 1
    /\ req.got[1].q.q = "Upsert"
    /\ req2.got[1].q.q = "Upsert"
    /\ {req.got[1].at, req2.got[1].at} = {1, 2}
    /\ {req.got[1].reply.is, req2.got[1].reply.is} = {"Found", "NotFound"}
    /\ req.st = "replied"
    /\ req2.st = "replied"
    /\ req.q.q = "Insert"
    /\ req2.q.q = "Insert"
    /\ req.reply.v # req2.reply.v

(***************************************************************************)
(* SpecPipeline: the pipeline of the connections test.  Producers send     *)
(* into the input channel of a Counter machine built with an event log and *)
(* two output channels, each with a consumer that receives until its       *)
(* channel is closed.  outq, delivered and outRx hold one value for each   *)
(* sink.                                                                   *)
(***************************************************************************)
\* the sinks that are the output channels of the two consumers
Consumers == {1, 2}

InitPipeline ==
    /\ fsm = "Counter"
    /\ template = [log |-> Sink(1), output |-> Merge(Sink(1), Sink(2)),
                   events |-> Placeholder]
    /\ req = NoRequest
    /\ req2 = NoRequest
    /\ NoStorage
    /\ buffer = InputCap
    /\ state = DefaultState(fsm)
    /\ effects0 \in InitialEffects
    /\ effects = effects0
    /\ last = NoStep
    /\ cur = NoInput
    /\ sender = "Some"
    /\ inq = <<>>
    /\ prod = [p \in Producers |-> [sent |-> 0, alive |-> TRUE]]
    /\ history \in {<<>>, <<"Tick">>}
    /\ log = [i \in 1..Len(history) |-> Logged(history[i], 0)]
    /\ events = [k \in SinkIds |-> <<>>]
    /\ outq = [k \in SinkIds |-> <<>>]
    /\ outRx = [k \in Consumers |-> "open"]
    /\ delivered = [k \in SinkIds |-> <<>>]
    /\ pc = "start"
    /\ fed = 0
    /\ pending = <<>>
    /\ terminating = FALSE
    /\ result = None
    /\ trace = <<>>

\* Receiver::recv of the consumer of sink k returns None: the task has
\* returned, dropping the Sender, and the channel is empty
WiredConsumerEnd(k) ==
    /\ outRx[k] = "open"
    /\ outq[k] = <<>>
    /\ pc = "done"
    /\ outRx' = [outRx EXCEPT ![k] = "ended"]
    /\ UNCHANGED <<storage, fsm, buffer, template, req, req2, state, effects, last, cur, sender, inq,
                   prod, log, events, outq, delivered, pc, fed, pending, terminating,
                   result, history, effects0, trace>>

\* the steps of the task of the pipeline
PipelineTask ==
    \/ TaskStart
    \/ TaskFeed
    \/ TaskInit
    \/ WiredNotifyOutput
    \/ TaskFlushDone
    \/ TaskRecv
    \/ TaskLog
    \/ WiredEvents
    \/ TaskReturn

NextPipeline ==
    \/ \E p \in Producers : ProducerSend(p)
    \/ \E p \in Producers : ProducerSendFails(p)
    \/ \E p \in Producers : ProducerDrop(p)
    \/ \E k \in Consumers : WiredConsumerRecv(k)
    \/ \E k \in Consumers : WiredConsumerEnd(k)
    \/ PipelineTask

SpecPipeline == InitPipeline /\ [][NextPipeline]_vars

\* The runtime polls a task that can make progress, and each consumer
\* receives in a loop until its channel is closed.
FairPipeline ==
    /\ SpecPipeline
    /\ WF_vars(PipelineTask)
    /\ \A k \in Consumers : WF_vars(WiredConsumerRecv(k))
    /\ \A k \in Consumers : WF_vars(WiredConsumerEnd(k))

\* every producer has finished and dropped its Sender
AllDropped == \A p \in Producers : ~prod[p].alive

\* the outputs the task gave to the channel of sink k, in order
OutsFor(k) == SelectSeq(trace, LAMBDA t : t[1] = "out" /\ t[3] = k)

\* the task has returned Ok with nothing left to notify, and each consumer
\* has received every output given to its channel, in order, and has then
\* seen the end of the stream
PipelineDone ==
    /\ pc = "done"
    /\ result = "Ok"
    /\ pending = <<>>
    /\ effects = <<>>
    /\ \A k \in Consumers :
           /\ outRx[k] = "ended"
           /\ outq[k] = <<>>
           /\ Len(delivered[k]) = Len(OutsFor(k))
           /\ \A i \in DOMAIN delivered[k] : delivered[k][i].n = OutsFor(k)[i][2]
    /\ Len(OutsFor(1)) = Len(OutsFor(2))

\* no step of the pipeline can be taken
Stuck == ~ENABLED NextPipeline

Slash == 47

Quote == 39

Percent == 37

\* char::is_ascii_digit
is_ascii_digit(c) == c \in 48..57

\* the characters encode_component leaves as they are: the letters, the
\* digits and - _ . ! ~ * ' ( )
Unreserved ==
    (48..57) \cup (65..90) \cup (97..122) \cup {45, 95, 46, 33, 126, 42, 39, 40, 41}

\* a hexadecimal digit, upper case, and its value
HexDigit(n) == IF n < 10 THEN 48 + n ELSE 55 + n

HexValue(c) == IF c \in 48..57 THEN c - 48 ELSE IF c \in 65..70 THEN c - 55 ELSE c - 87

IsHex(c) == c \in (48..57) \cup (65..70) \cup (97..102)

\* url_escape::encode_component_to_string: a byte that is not unreserved
\* becomes % and its two hexadecimal digits
RECURSIVE encode_component(_)
encode_component(str) ==
    IF str = <<>> THEN <<>>
    ELSE (IF Head(str) \in Unreserved
          THEN <<Head(str)>>
          ELSE <<Percent, HexDigit(Head(str) \div 16), HexDigit(Head(str) % 16)>>)
         \o encode_component(Tail(str))

\* url_escape::decode_to_string: % and two hexadecimal digits become the
\* byte, every other byte stays
RECURSIVE decode(_)
decode(str) ==
    IF str = <<>> THEN <<>>
    ELSE IF Head(str) = Percent /\ Len(str) >= 3 /\ IsHex(str[2]) /\ IsHex(str[3])
         THEN <<16 * HexValue(str[2]) + HexValue(str[3])>>
                  \o decode(SubSeq(str, 4, Len(str)))
         ELSE <<Head(str)>> \o decode(Tail(str))

\* u64::to_string: the decimal digits
RECURSIVE u64_to_string(_)
u64_to_string(n) ==
    IF n < 10 THEN <<48 + n>> ELSE Append(u64_to_string(n \div 10), 48 + (n % 10))

\* str::parse::<u64> of a string that is not empty: the number, or -1 for
\* the ParseIntError of a string that is not made of digits alone
RECURSIVE parse_u64(_, _)
parse_u64(str, acc) ==
    IF str = <<>> THEN acc
    ELSE IF is_ascii_digit(Head(str))
         THEN parse_u64(Tail(str), 10 * acc + (Head(str) - 48))
         ELSE -1

\* Display for Path: every item after a slash; a number in digits, a name
\* encoded, after a quote if it starts with a digit or a quote
RECURSIVE to_string(_)
to_string(path) ==
    IF path = <<>> THEN <<>>
    ELSE LET item == Head(path)
         IN  <<Slash>>
             \o (IF item.t = "Number"
                 THEN encode_component(u64_to_string(item.v))
                 ELSE (IF item.v # <<>> /\ (is_ascii_digit(item.v[1]) \/ item.v[1] = Quote)
                       THEN <<Quote>>
                       ELSE <<>>) \o encode_component(item.v))
             \o to_string(Tail(path))

\* str::split('/'): the pieces between the slashes, one more than slashes
RECURSIVE Split(_, _)
Split(str, piece) ==
    IF str = <<>> THEN <<piece>>
    ELSE IF Head(str) = Slash
         THEN <<piece>> \o Split(Tail(str), <<>>)
         ELSE Split(Tail(str), Append(piece, Head(str)))

\* the item a piece of the string stands for, in from_str
ParseItem(raw) ==
    IF raw # <<>> /\ is_ascii_digit(raw[1])
    THEN Number(parse_u64(raw, 0))
    ELSE IF raw # <<>> /\ raw[1] = Quote
         THEN Name(decode(Tail(raw)))
         ELSE Name(decode(raw))

\* FromStr for Path: Ok(path), Err(NoRoot) or Err(BadInt)
from_str(str) ==
    IF str = <<>> \/ Head(str) # Slash
    THEN [is |-> "Err", err |-> "NoRoot"]
    ELSE LET pieces == Tail(Split(str, <<>>))
             items == [i \in DOMAIN pieces |-> ParseItem(pieces[i])]
         IN  IF \E i \in DOMAIN items : items[i] = Number(-1)
             THEN [is |-> "Err", err |-> "BadInt"]
             ELSE [is |-> "Ok", path |-> items]

\* the names written: the strings of at most two of a 1 ' / %
NameChars == {97, 49, Quote, Slash, Percent}

WrittenNames == {<<>>} \cup [1..1 -> NameChars] \cup [1..2 -> NameChars]

\* the items written: the numbers 1 and 11, and every name
WrittenItems == {Number(1), Number(11)} \cup {Name(n) : n \in WrittenNames}

\* the paths written: those of at most MaxPathLen items
WrittenPaths == UNION {[1..n -> WrittenItems] : n \in 0..MaxPathLen}

\* a path is written with to_string and the string is parsed
FormatParse ==
    /\ pc = "paths"
    /\ \E p \in WrittenPaths :
        /\ cur' = [kind |-> "Format", p |-> p]
        /\ last' = [s |-> to_string(p), parsed |-> from_str(to_string(p))]
    /\ pc' = "parsed"
    /\ UNCHANGED <<storage, fsm, buffer, template, req, req2, state, effects, sender, inq, prod,
                   log, events, outq, outRx, delivered, fed, pending, terminating,
                   result, history, effects0, trace>>

SpecString == InitPath /\ [][FormatParse]_vars

\* C32: parsing the string written for a path gives the path back, the root
\* too, and no other path is written as the same string.
C32_StringRoundTrip ==
    pc = "parsed" =>
        /\ last.parsed = [is |-> "Ok", path |-> cur.p]
        /\ \A q \in WrittenPaths : q # cur.p => to_string(q) # last.s

\* what does hold: every path but the root is read back from its string,
\* the root is written as the empty string, which does not parse, and no
\* two paths are written as the same string
C32_AllButRoot ==
    pc = "parsed" =>
        /\ cur.p # root => last.parsed = [is |-> "Ok", path |-> cur.p]
        /\ cur.p = root => (last.s = <<>> /\ last.parsed = [is |-> "Err", err |-> "NoRoot"])
        /\ \A q \in WrittenPaths : q # cur.p => to_string(q) # last.s

\* the tests to_string_3 and to_string_4 in the model's letters: the name
\* "1" after a name, and the name "'a" before a number
C32_Tests ==
    /\ to_string(<<Name(<<97>>), Name(<<49>>)>>) = <<Slash, 97, Slash, Quote, 49>>
    /\ to_string(<<Name(<<Quote, 97>>), Number(1)>>) = <<Slash, Quote, Quote, 97, Slash, 49>>
    /\ to_string(<<Name(<<97, Slash>>), Number(11)>>)
           = <<Slash, 97, Percent, 50, 70, Slash, 49, 49>>
    /\ from_str(<<97>>) = [is |-> "Err", err |-> "NoRoot"]
    /\ from_str(<<Slash, 49, 97>>) = [is |-> "Err", err |-> "BadInt"]

(***************************************************************************)
(* SpecStore: the BackingStore of edfsm-persistance on an SQLite database. *)
(* db holds the tables of the database file: log, rows of offset, key and  *)
(* value by offset; compacted, one row for a key; and compact, a table the *)
(* statements of the store name but create_tables does not create, which   *)
(* only a file made elsewhere has.  A statement gives Ok or the error with *)
(* which SQLite or rusqlite refuses it.  db.produced is a history field:   *)
(* every event that was ever inserted into log, with its offset.           *)
(***************************************************************************)
\* the variables of the machine, which a store used alone leaves
machine == <<fsm, buffer, template, req, req2, state, effects, last, cur, sender, inq,
             prod, log, events, outq, outRx, delivered, pc, fed, pending,
             terminating, result, history, effects0, trace>>

\* no machine is built
NoMachine ==
    /\ fsm = "Counter"
    /\ template = TestTemplate
    /\ req = NoRequest
    /\ req2 = NoRequest
    /\ buffer = InputCap
    /\ state = DefaultState(fsm)
    /\ effects0 = DefaultEffects(fsm)
    /\ effects = effects0
    /\ last = NoStep
    /\ cur = NoInput
    /\ sender = "Some"
    /\ inq = <<>>
    /\ prod = [p \in Producers |-> [sent |-> 0, alive |-> FALSE]]
    /\ history = <<>>
    /\ log = <<>>
    /\ events = <<>>
    /\ outq = <<>>
    /\ outRx = "open"
    /\ delivered = <<>>
    /\ pc = "none"
    /\ fed = 0
    /\ pending = <<>>
    /\ terminating = FALSE
    /\ result = None
    /\ trace = <<>>

\* usize::MAX, of a usize of four bits
UsizeMax == 15

\* the largest offset a produce of the model gives
MaxOffset == 7

\* the events persisted: a compaction key and a payload
StoreKeys == {1, 2}

StoreItems == [key : StoreKeys, v : {1, 2}]

\* serde_json::to_string and serde_json::from_str
to_json(x) == <<"json", x>>

from_json(text) == text[2]

Max2(a, b) == IF a > b THEN a ELSE b

Min2(a, b) == IF a < b THEN a ELSE b

Ok(v) == [is |-> "Ok", v |-> v]

Err(e) == [is |-> "Err", err |-> e]

\* BackingStore::create_tables: CREATE TABLE IF NOT EXISTS log, compacted
create_tables(d) == [d EXCEPT !.tables = @ \cup {"log", "compacted"}]

\* BackingStore::query_log_offsets: MIN and MAX of an empty table are NULL,
\* which row.get cannot give as an i64
query_log_offsets(d) ==
    IF d.log = <<>>
    THEN Err("InvalidColumnType")
    ELSE Ok([start |-> d.log[1].offset, end |-> d.log[Len(d.log)].offset + 1])

\* BackingStore::query_compact_offset: the statement names the table
\* compact; with that table there, MAX of no row is NULL
query_compact_offset(d) ==
    IF "compact" \notin d.tables
    THEN Err("no such table: compact")
    ELSE IF d.compact = <<>>
         THEN Err("InvalidColumnType")
         ELSE Ok([is |-> "Some",
                  v |-> CHOOSE m \in {d.compact[i].offset : i \in DOMAIN d.compact} :
                            \A i \in DOMAIN d.compact : d.compact[i].offset <= m])

\* BackingStore::new: the database after the call and the store or the error
BackingStore_new(d, low_level, high_level) ==
    LET log_low_level == Min2(Max2(low_level, 1), UsizeMax - 2)
        log_high_level == Max2(high_level, log_low_level + 2)
        d1 == create_tables(d)
        log_range == query_log_offsets(d1)
        last_compact_offset == query_compact_offset(d1)
    IN  IF log_range.is = "Err"
        THEN [is |-> "Err", err |-> log_range.err, db |-> d1, store |-> NoStore]
        ELSE IF last_compact_offset.is = "Err"
        THEN [is |-> "Err", err |-> last_compact_offset.err, db |-> d1, store |-> NoStore]
        ELSE [is |-> "Ok", db |-> d1,
              store |-> [is |-> "Some", log_range |-> log_range.v,
                         last_compact_offset |-> last_compact_offset.v,
                         log_low_level |-> log_low_level,
                         log_high_level |-> log_high_level]]

\* Range::is_empty
is_empty(r) == r.start >= r.end

\* INSERT_LOG: the row gets the rowid after the largest in the table
insert_log(d, item) ==
    LET offset == IF d.log = <<>> THEN 1 ELSE d.log[Len(d.log)].offset + 1
    IN  [d EXCEPT !.log = Append(@, [offset |-> offset, key |-> to_json(item.key),
                                     value |-> to_json(item)]),
                  !.produced = Append(@, [offset |-> offset, item |-> item])]

\* TRIM_LOG: DELETE FROM log where offset < ?
trim_log(d, preserve) ==
    [d EXCEPT !.log = SelectSeq(@, LAMBDA r : r.offset >= preserve)]

\* COMPACT_LOG_ALL: every row of log goes to compacted in the order of the
\* offsets, a row replacing the one of its key
RECURSIVE compact_rows(_, _)
compact_rows(compacted, rows) ==
    IF rows = <<>>
    THEN compacted
    ELSE compact_rows(Append(SelectSeq(compacted, LAMBDA c : c.key # Head(rows).key),
                             Head(rows)),
                      Tail(rows))

\* the trimming at the end of compact
compact_trim(d, st) ==
    IF st.log_range.end - st.log_range.start > st.log_high_level
    THEN LET preserve == st.log_range.end - st.log_low_level
         IN  [is |-> "Ok", db |-> trim_log(d, preserve),
              store |-> [st EXCEPT !.log_range.start = preserve]]
    ELSE [is |-> "Ok", db |-> d, store |-> st]

\* BackingStore::compact.  COMPACT_LOG_TAIL has its WHERE after its ORDER
\* BY: prepare_cached refuses it with a syntax error and compact returns.
compact(d, st) ==
    IF is_empty(st.log_range)
    THEN [is |-> "Ok", db |-> d, store |-> st]
    ELSE LET last_log_offset == st.log_range.end - 1
         IN  IF st.last_compact_offset.is = "Some"
             THEN IF last_log_offset > st.last_compact_offset.v
                  THEN [is |-> "Err", err |-> "syntax error", db |-> d, store |-> st]
                  ELSE compact_trim(d, st)
             ELSE compact_trim(
                      [d EXCEPT !.compacted = compact_rows(@, d.log)],
                      [st EXCEPT !.last_compact_offset =
                                     [is |-> "Some", v |-> last_log_offset]])

\* BackingStore::produce
produce(d, st, item) ==
    LET d1 == insert_log(d, item)
        offset == d1.log[Len(d1.log)].offset
        st1 == [st EXCEPT !.log_range =
                   [start |-> IF is_empty(st.log_range) THEN offset
                              ELSE st.log_range.start,
                    end |-> offset + 1]]
    IN  IF st1.log_range.end - st1.log_range.start > st1.log_high_level
        THEN compact(d1, st1)
        ELSE [is |-> "Ok", db |-> d1, store |-> st1]

\* the values of rows, read back
Values(rows) == [i \in DOMAIN rows |-> from_json(rows[i].value)]

\* BackingStore::history.  SELECT_COMPACT_TAIL has its WHERE after its
\* ORDER BY and is refused; SELECT_COMPACT_ALL reads the table compact.
BackingStore_history(d, st) ==
    IF is_empty(st.log_range)
    THEN IF "compact" \in d.tables
         THEN [is |-> "Ok", values |-> Values(d.compact)]
         ELSE [is |-> "Err", err |-> "no such table: compact"]
    ELSE [is |-> "Err", err |-> "syntax error"]

\* the files a store is opened on: a new file; a file on which new was
\* called before, which left the two tables empty; and files made elsewhere,
\* with rows in log and perhaps the table compact
FirstRows ==
    {<<>>,
     <<[offset |-> 1, item |-> [key |-> 1, v |-> 1]]>>,
     <<[offset |-> 1, item |-> [key |-> 1, v |-> 1]],
       [offset |-> 2, item |-> [key |-> 2, v |-> 1]]>>}

LogRows(ps) ==
    [i \in DOMAIN ps |-> [offset |-> ps[i].offset, key |-> to_json(ps[i].item.key),
                          value |-> to_json(ps[i].item)]]

ForeignCompact ==
    {<<>>,
     <<[key |-> to_json(1), offset |-> 0, value |-> to_json([key |-> 1, v |-> 2])]>>,
     <<[key |-> to_json(1), offset |-> MaxOffset, value |-> to_json([key |-> 1, v |-> 2])]>>}

DbFiles ==
    {[tables |-> {}, log |-> <<>>, compacted |-> <<>>, compact |-> <<>>, produced |-> <<>>]}
    \cup {[tables |-> {"log", "compacted"}, log |-> LogRows(ps), compacted |-> <<>>,
           compact |-> <<>>, produced |-> ps] : ps \in FirstRows}
    \cup {[tables |-> {"log", "compacted", "compact"}, log |-> LogRows(ps),
           compacted |-> <<>>, compact |-> c, produced |-> ps] :
              ps \in FirstRows, c \in ForeignCompact}

\* whether only this program wrote the file
OwnFile(d) == d.produced = <<>> /\ "compact" \notin d.tables

InitStore ==
    /\ NoMachine
    /\ db \in DbFiles
    /\ backing = NoStore
    /\ clog = <<>>
    /\ hist = NoHist
    /\ ret = NoRet

\* BackingStore::new(path, low_level, high_level)
StoreNew ==
    /\ backing = NoStore
    /\ \E low_level \in {0, 2, UsizeMax}, high_level \in {0, 3} :
        LET r == BackingStore_new(db, low_level, high_level)
        IN  /\ db' = r.db
            /\ backing' = r.store
            /\ ret' = [op |-> "new", is |-> r.is, own |-> OwnFile(db),
                       low_level |-> low_level, high_level |-> high_level]
    /\ UNCHANGED <<machine, clog, hist>>

\* store.produce(item)
StoreProduce ==
    /\ backing # NoStore
    /\ db.log = <<>> \/ db.log[Len(db.log)].offset < MaxOffset
    /\ \E item \in StoreItems :
        LET r == produce(db, backing, item)
        IN  /\ db' = r.db
            /\ backing' = r.store
            /\ ret' = [op |-> "produce", is |-> r.is, item |-> item,
                       before |-> Len(db.log)]
    /\ UNCHANGED <<machine, clog, hist>>

\* store.compact()
StoreCompact ==
    /\ backing # NoStore
    /\ LET r == compact(db, backing)
       IN  /\ db' = r.db
           /\ backing' = r.store
           /\ ret' = [op |-> "compact", is |-> r.is]
    /\ UNCHANGED <<machine, clog, hist>>

\* store.history()
StoreHistory ==
    /\ backing # NoStore
    /\ ret' = [op |-> "history"] @@ BackingStore_history(db, backing)
    /\ UNCHANGED <<machine, db, backing, clog, hist>>

NextStore ==
    \/ StoreNew
    \/ StoreProduce
    \/ StoreCompact
    \/ StoreHistory

SpecStore == InitStore /\ [][NextStore]_vars

\* the compaction keys of the events produced so far
ProducedKeys == {db.produced[i].item.key : i \in DOMAIN db.produced}

\* the offsets still in log
LogOffsets == {db.log[i].offset : i \in DOMAIN db.log}

\* the events produced with the key k, and the most recent of them
ProducedWith(k) == SelectSeq(db.produced, LAMBDA x : x.item.key = k)

Latest(k) == ProducedWith(k)[Len(ProducedWith(k))]

\* the keys whose events were all trimmed from log
TrimmedKeys ==
    {k \in ProducedKeys :
        \A i \in DOMAIN db.produced :
            db.produced[i].item.key = k => db.produced[i].offset \notin LogOffsets}

\* what history is to return: for a key trimmed from log its most recent
\* event, then the events in log, all in the order of their offsets
Retained ==
    LET kept == SelectSeq(db.produced,
                          LAMBDA x : \/ x.offset \in LogOffsets
                                     \/ /\ x.item.key \in TrimmedKeys
                                        /\ x = Latest(x.item.key))
    IN  [i \in DOMAIN kept |-> kept[i].item]

\* C33: a store is opened on a file of its own, and after any produce and
\* compact history returns the retained events in the order of the offsets,
\* each once: the events in log, and the most recent event of every key
\* whose events were all trimmed.
C33_HistoryReturnsRetained ==
    /\ (ret.op = "new" /\ ret.own) => ret.is = "Ok"
    /\ ret.op = "history" => (ret.is = "Ok" /\ ret.values = Retained)

\* what the code does instead: no store is ever opened on a file of its
\* own, and history of a store opened on a file made elsewhere fails
C33_Observed ==
    /\ (ret.op = "new" /\ ret.own) => ret.is = "Err"
    /\ ret.op = "history" => ret.is = "Err"

\* the levels of a store are clamped
Clamped ==
    backing # NoStore =>
        /\ backing.log_low_level >= 1
        /\ backing.log_high_level >= backing.log_low_level + 2

\* C36: the levels are clamped; a store is opened on a file of its own;
\* after a produce log holds at most H records; a produce that took it over
\* H leaves exactly the L most recent records, with the most recent value
\* of every key in the table compacted.
C36_LogTrimmedToLow ==
    /\ Clamped
    /\ (ret.op = "new" /\ ret.own) => ret.is = "Ok"
    /\ ret.op = "produce" =>
           /\ ret.is = "Ok"
           /\ Len(db.log) <= backing.log_high_level
           /\ ret.before + 1 > backing.log_high_level =>
                  /\ Len(db.log) = backing.log_low_level
                  /\ \A i \in DOMAIN db.log :
                         db.log[i].offset
                             = db.produced[Len(db.produced)].offset
                                   - backing.log_low_level + i
                  /\ \A k \in ProducedKeys :
                         \E j \in DOMAIN db.compacted :
                             /\ db.compacted[j].key = to_json(k)
                             /\ from_json(db.compacted[j].value) = Latest(k).item

\* what the code does instead: a produce that takes log over H either
\* fails, leaving the record in a log that grows on, or trims log to L
\* records without a row ever reaching the table compacted
C36_Observed ==
    /\ Clamped
    /\ db.compacted = <<>>
    /\ (ret.op = "produce" /\ ret.before + 1 > backing.log_high_level) =>
           \/ ret.is = "Err" /\ Len(db.log) = ret.before + 1
           \/ ret.is = "Ok" /\ Len(db.log) = backing.log_low_level

\* a produce failed and left more than H records in log
C36_Overfull ==
    /\ ret.op = "produce"
    /\ ret.is = "Err"
    /\ Len(db.log) > backing.log_high_level + 1

\* a produce trimmed log and the trimmed events are in no table
C36_Lost ==
    /\ ret.op = "produce"
    /\ ret.is = "Ok"
    /\ Len(db.log) = backing.log_low_level
    /\ TrimmedKeys # {}
    /\ db.compacted = <<>>

(***************************************************************************)
(* The commit-log adapter, streambed-machine: LogAdapter over a commit log  *)
(* and a Codec.  `backing` is the adapter (its codec and whether the secret *)
(* store holds the secret), `clog` the records of the topic, `hist` the     *)
(* stream that history() returned and `ret` the outcome of the last call.   *)
(***************************************************************************)
MaxRecords == 4

Some(v) == [is |-> "Some", v |-> v]

NoneOpt == [is |-> "None"]

\* the test's Event::Num(n)
Num(n) == [e |-> "Num", n |-> n]

\* an item whose Serialize implementation returns an error
Unserializable == [e |-> "Unserializable"]

LogItems == {Num(1), Num(2), Unserializable}

\* CompactionKey::compaction_key of the test's Event
compaction_key(item) == 0

\* the adapters: Cbor, and CborEncrypted over a secret store that holds the
\* secret at the path or does not
LogAdapters ==
    {[is |-> "Log", codec |-> "Cbor", secret |-> FALSE]}
    \cup {[is |-> "Log", codec |-> "CborEncrypted", secret |-> s] : s \in BOOLEAN}

\* Codec::encode: the bytes, or None
Codec_encode(c, item) ==
    IF c.codec = "Cbor"
    THEN IF item.e = "Num" THEN Some(<<"cbor", item.n>>) ELSE NoneOpt
    ELSE IF ~c.secret THEN NoneOpt
         ELSE IF item.e = "Num" THEN Some(<<"sealed", item.n>>) ELSE NoneOpt

\* Codec::decode: the item, or None
Codec_decode(c, bytes) ==
    IF c.codec = "Cbor"
    THEN IF bytes[1] = "cbor" THEN Some(Num(bytes[2])) ELSE NoneOpt
    ELSE IF ~c.secret THEN NoneOpt
         ELSE IF bytes[1] = "sealed" THEN Some(Num(bytes[2])) ELSE NoneOpt

\* CommitLog::produce: the record is appended at the next offset
commit_log_produce(l, key, value) ==
    Append(l, [offset |-> Len(l), key |-> key, value |-> value])

\* CommitLog::offsets(topic, 0).map(|lo| lo.end_offset)
end_offset(l) == IF l = <<>> THEN NoneOpt ELSE Some(l[Len(l)].offset)

\* LogAdapter::produce, where the commit log accepts the record (accepted)
\* or fails
LogAdapter_produce(c, l, item, accepted) ==
    LET key == compaction_key(item)
        value == Codec_encode(c, item)
    IN  IF value.is = "Some"
        THEN IF accepted
             THEN [log |-> commit_log_produce(l, key, value.v), ret |-> Ok(Len(l))]
             ELSE [log |-> l, ret |-> Err("CannotProduce")]
        ELSE [log |-> l, ret |-> Err("CannotProduce")]

\* LogAdapter::history, up to the stream it returns
LogAdapter_history(l) ==
    [st |-> "open", last_offset |-> end_offset(l), pos |-> 0, yielded |-> <<>>]

\* a stream that ends at the first record it cannot decode
history_next_StopsAtUndecodable(c, h, r) ==
    IF r.offset <= h.last_offset.v
    THEN LET event == Codec_decode(c, r.value)
         IN  [h EXCEPT !.pos = @ + 1,
                       !.yielded = IF event.is = "Some" THEN Append(@, event.v) ELSE @,
                       !.st = IF r.offset = h.last_offset.v \/ event.is = "None"
                              THEN "done" ELSE "open"]
    ELSE [h EXCEPT !.st = "done"]

\* the body of the stream's loop for the record r
history_next(c, h, r) ==
    IF r.offset <= h.last_offset.v
    THEN LET event == Codec_decode(c, r.value)
         IN  [h EXCEPT !.pos = @ + 1,
                       !.yielded = IF event.is = "Some" THEN Append(@, event.v) ELSE @,
                       !.st = IF r.offset = h.last_offset.v THEN "done" ELSE "open"]
    ELSE [h EXCEPT !.st = "done"]

\* the values a topic holds when the adapter is made: written with either
\* codec, or by another program
FoundValues == {<<"cbor", 1>>, <<"sealed", 2>>, <<"junk">>}

RECURSIVE FoundLogs(_)
FoundLogs(n) ==
    IF n = 0 THEN {<<>>}
    ELSE FoundLogs(n - 1)
         \cup {commit_log_produce(l, 0, v) : l \in {x \in FoundLogs(n - 1) : Len(x) = n - 1},
                                             v \in FoundValues}

InitLog ==
    /\ NoMachine
    /\ db = NoDb
    /\ backing \in LogAdapters
    /\ clog \in FoundLogs(2)
    /\ hist = NoHist
    /\ ret = NoRet

\* log.produce(item)
LogProduce ==
    /\ Len(clog) < MaxRecords
    /\ \E item \in LogItems, accepted \in BOOLEAN :
        LET r == LogAdapter_produce(backing, clog, item, accepted)
        IN  /\ clog' = r.log
            /\ ret' = [op |-> "produce", item |-> item] @@ r.ret
    /\ UNCHANGED <<machine, db, backing, hist>>

\* log.history().await
LogHistory ==
    /\ hist.st \in {"none", "done"}
    /\ hist' = LogAdapter_history(clog)
    /\ UNCHANGED <<machine, db, backing, clog, ret>>

\* history.next().await reads the next record of the subscription, or ends
\* the stream at once when the topic had no offsets
LogHistoryNext ==
    /\ hist.st = "open"
    /\ IF hist.last_offset.is = "None"
       THEN hist' = [hist EXCEPT !.st = "done"]
       ELSE /\ hist.pos < Len(clog)
            /\ hist' = history_next(backing, hist, clog[hist.pos + 1])
    /\ UNCHANGED <<machine, db, backing, clog, ret>>

NextLog ==
    \/ LogProduce
    \/ LogHistory
    \/ LogHistoryNext

SpecLog == InitLog /\ [][NextLog]_vars

\* the records up to the offset e whose value decodes, and their items
Decodable(e) ==
    SelectSeq(clog, LAMBDA r : r.offset <= e /\ Codec_decode(backing, r.value).is = "Some")

DecodedUpTo(e) ==
    [i \in DOMAIN Decodable(e) |-> Codec_decode(backing, Decodable(e)[i].value).v]

\* a produce of an item that does not encode returns the producer error and
\* leaves the log as it was
C34_ProduceStep ==
    (ret'.op = "produce" /\ ret' # ret /\ Codec_encode(backing, ret'.item).is = "None")
        => (ret'.is = "Err" /\ ret'.err = "CannotProduce" /\ clog' = clog)

\* the log changes only by a produce whose item encodes, which appends it
C34_AppendStep ==
    clog' # clog
        => /\ ret'.op = "produce"
           /\ Codec_encode(backing, ret'.item).is = "Some"
           /\ clog' = Append(clog, [offset |-> Len(clog), key |-> 0,
                                    value |-> Codec_encode(backing, ret'.item).v])

\* a finished history has yielded, in offset order, the item of every record
\* up to the end offset that decodes, and nothing else
C34_HistoryDone ==
    (hist.st = "done" /\ hist.last_offset.is = "Some")
        => hist.yielded = DecodedUpTo(hist.last_offset.v)

====
